---- MODULE Spec2Model ----
(***************************************************************************)
(* Authentication and multi-factor verification core of the PSFSS backend: *)
(* the login orchestrator (services/auth), the factor verifiers            *)
(* (services/twoFactorVerification), the attempt ledger and the 2FA tables *)
(* (models/twoFactor), the device session registry (models/deviceSession,  *)
(* services/deviceSession) and the token checks of the authentication      *)
(* middlewares.  Time is counted in minutes.                               *)
(***************************************************************************)
EXTENDS Integers, Sequences, FiniteSets, TLC

VARIABLES
    now,            \* CURRENT_TIMESTAMP / Date.now(), in minutes
    users,          \* table user (joined with role): id -> row
    userRoles,      \* table user_roles: id -> set of active role names
    settings,       \* table user_2fa_settings: id -> row or NoRow
    authenticator,  \* table user_authenticator: id -> the rows, in the order inserted
    questions,      \* table user_security_question: set of rows
    backupCodes,    \* table user_2fa_backup_code: set of rows
    otps,           \* table otp: set of rows
    attempts,       \* table user_2fa_attempt: sequence of rows (append only)
    sessions,       \* table device_session: set of rows
    tokens,         \* the JWTs issued so far that clients still hold
    inflight,       \* request slot -> the verify-2fa request being served, or Idle
    last            \* the last request completed and its response

vars == <<now, users, userRoles, settings, authenticator, questions,
          backupCodes, otps, attempts, sessions, tokens, inflight, last>>

-----------------------------------------------------------------------------
(* Bounds of the model *)

MaxTicks == 2          \* the clock advances at most this many times
TickMinutes == 15      \* minutes that pass in one clock step
MaxTokens == 2         \* tokens kept by the clients at one time
MaxSessions == 2       \* device_session rows
MaxAttempts == 6       \* user_2fa_attempt rows
MaxAnswers == 3        \* answers in one security-question submission
MaxOtps == 1           \* otp rows
FewAttempts == 1       \* user_2fa_attempt rows where the ledger is not the subject
MaxWrongPasswords == 4 \* wrong-password logins that are counted
MaxQuestions == 6      \* entries in one security-question setup request
MaxSecrets == 2        \* user_authenticator rows of one user
MaxSecondSteps == 3    \* verifications in the scenario of the second step

(* Program constants *)

LockoutWindowMinutes == 30     \* getRecentFailedAttempts(userId, 30)
LockoutThreshold == 5          \* failedAttempts >= 5
TempTokenMinutes == 10         \* expiresIn: "10m"
SessionTokenMinutes == 10080   \* expiresIn: "7d"
OtpMinutes == 10               \* expires_at = CURRENT_TIMESTAMP + INTERVAL 10 MINUTE
BackupCodeCount == 10          \* codes generateBackupCodes mints
BcryptBytes == 72              \* bcryptjs: the bytes of the input that count
TotpWindowMinutes == 1         \* window: 2 steps of 30 seconds

-----------------------------------------------------------------------------
(* Values *)

NoRow == [none |-> TRUE]
NoToken == [none |-> TRUE]
Idle == [step |-> "idle"]

ROLES == [STANDARD_USER |-> "standard_user", MANAGER |-> "manager",
          ADMIN |-> "admin", SUPER_ADMIN |-> "super_admin"]

ADMIN_ROLES == {ROLES.ADMIN, ROLES.SUPER_ADMIN, ROLES.MANAGER}

SUPER_ADMIN_SELECTABLE_ROLES == {ROLES.ADMIN, ROLES.SUPER_ADMIN}

(* bcryptjs works on the first 72 bytes of its input; every character of the
   model is one byte. *)
bcryptInput(plain) ==
    IF Len(plain) > BcryptBytes THEN SubSeq(plain, 1, BcryptBytes) ELSE plain

(* bcrypt, a black box: hash(x) can only be compared with a plain text. *)
bcryptHash(plain) == <<"bcrypt", bcryptInput(plain)>>

bcryptCompare(plain, hash) == hash = bcryptHash(plain)

(* Strings the code transforms are sequences of characters. *)
toLowerCase(s) ==
    [i \in 1..Len(s) |->
        CASE s[i] = "A" -> "a"
          [] s[i] = "B" -> "b"
          [] s[i] = "C" -> "c"
          [] s[i] = "D" -> "d"
          [] s[i] = "X" -> "x"
          [] OTHER -> s[i]]

RECURSIVE trimStart(_)
trimStart(s) == IF s # <<>> /\ Head(s) = " " THEN trimStart(Tail(s)) ELSE s

RECURSIVE trimEnd(_)
trimEnd(s) ==
    IF s # <<>> /\ s[Len(s)] = " " THEN trimEnd(SubSeq(s, 1, Len(s) - 1)) ELSE s

trim(s) == trimEnd(trimStart(s))

(* answer.answer.toLowerCase().trim() *)
normalizeAnswer(s) == trim(toLowerCase(s))

-----------------------------------------------------------------------------
(* JSON web tokens (jsonwebtoken) *)

(* jwt.sign(payload, config.jwtSecret, {expiresIn}) *)
jwtSign(id, role, temp, temp2FA, minutes) ==
    [id |-> id, role |-> role, temp |-> temp, temp2FA |-> temp2FA,
     exp |-> now + minutes, sig |-> "jwtSecret"]

(* A token signed with another key, as anybody can make one. *)
ForgedToken ==
    [id |-> "owner", role |-> ROLES.SUPER_ADMIN, temp |-> FALSE, temp2FA |-> FALSE,
     exp |-> SessionTokenMinutes, sig |-> "otherSecret"]

(* jwt.verify(token, config.jwtSecret): the error it throws, or "ok". *)
jwtVerify(token) ==
    IF token = NoToken \/ token.sig # "jwtSecret" THEN "JsonWebTokenError"
    ELSE IF now >= token.exp THEN "TokenExpiredError"
    ELSE "ok"

-----------------------------------------------------------------------------
(* Requests and device information (utils/deviceInfo) *)

(* ipAddress.replace("::ffff:", "").replace("::1", "127.0.0.1") *)
cleanIp(ip) ==
    CASE ip = "::ffff:10.0.0.1" -> "10.0.0.1"
      [] ip = "::1" -> "127.0.0.1"
      [] OTHER -> ip

(* new UAParser(userAgentString).getResult() *)
UAParser(ua) ==
    CASE ua = "Chrome/Linux" -> [browser |-> "Chrome", os |-> "Linux"]
      [] ua = "Firefox/Linux" -> [browser |-> "Firefox", os |-> "Linux"]
      [] ua = "Chrome/Mac OS" -> [browser |-> "Chrome", os |-> "Mac OS"]
      [] OTHER -> [browser |-> "Unknown Browser", os |-> "Unknown OS"]

extractDeviceInfo(req) ==
    [ipAddress |-> cleanIp(req.ip),
     browser |-> UAParser(req.userAgent).browser,
     os |-> UAParser(req.userAgent).os]

(* The three fields every device check compares. *)
sameDevice(session, deviceInfo) ==
    /\ session.ip_address = deviceInfo.ipAddress
    /\ session.browser = deviceInfo.browser
    /\ session.os = deviceInfo.os

(* A comparison with the address as the request carries it, not cleaned. *)
isCurrentDeviceByRawIp(req, sessionData) ==
    sameDevice(sessionData, [extractDeviceInfo(req) EXCEPT !.ipAddress = req.ip])

isCurrentDevice(req, sessionData) == sameDevice(sessionData, extractDeviceInfo(req))

-----------------------------------------------------------------------------
(* Table access (models) *)

UserIds == DOMAIN users

NoUser == [none |-> TRUE]

(* userModel.getByEmail *)
getByEmail(email) ==
    IF \E u \in UserIds : users[u].email = email
    THEN users[CHOOSE u \in UserIds : users[u].email = email]
    ELSE NoUser

(* userModel.getById *)
getById(id) == IF id \in UserIds THEN users[id] ELSE NoUser

(* userModel.updateLastLoggedIn *)
updateLastLoggedIn(id) == [users EXCEPT ![id].last_login = now]

(* Every role a super_admin can select, granted or not. *)
getSelectableRoleNames(userId) == {"admin", "super_admin"}

(* getUserRoleNames that also returns the grants that were removed *)
getUserRoleNamesWithRemoved(userId) ==
    userRoles[userId] \cup (IF userId = "owner" THEN {"super_admin", "admin"} ELSE {})

(* userRolesModel.getUserRoleNames *)
getUserRoleNames(userId) == userRoles[userId]

(* get2FASettings without its WHERE user_id = ?: the row of any user *)
get2FASettingsOfAnyUser(userId) ==
    IF \E u \in UserIds : settings[u] # NoRow
    THEN settings[CHOOSE u \in UserIds : settings[u] # NoRow]
    ELSE NoRow

(* twoFactorModel.get2FASettings *)
get2FASettings(userId) == settings[userId]

(* deviceSessionModel.getUserSessions *)
getUserSessions(userId) == {s \in sessions : s.user_id = userId}

(* deviceSessionModel.getSessionById *)
getSessionById(sessionId) ==
    IF \E s \in sessions : s.id = sessionId
    THEN CHOOSE s \in sessions : s.id = sessionId
    ELSE NoRow

(* uuidv4(): an id no row has *)
uuidv4 == CHOOSE i \in 1..(Cardinality(sessions) + 1) : \A s \in sessions : s.id # i

(* createSession without its INSERT *)
createNoSession(userId, deviceInfo) == sessions

(* deviceSessionModel.createSession *)
createSession(userId, deviceInfo) ==
    sessions \cup {[id |-> uuidv4, user_id |-> userId,
                    ip_address |-> deviceInfo.ipAddress,
                    browser |-> deviceInfo.browser, os |-> deviceInfo.os,
                    is_blocked |-> FALSE, last_active |-> now]}

(* deviceSessionModel.blockSession / unblockSession *)
setBlocked(sessionId, flag) ==
    {IF s.id = sessionId THEN [s EXCEPT !.is_blocked = flag] ELSE s : s \in sessions}

blockSession(sessionId) == setBlocked(sessionId, TRUE)

unblockSession(sessionId) == setBlocked(sessionId, FALSE)

(* deviceSessionModel.updateLastActive *)
updateLastActive(rows, sessionId) ==
    {IF s.id = sessionId THEN [s EXCEPT !.last_active = now] ELSE s : s \in rows}

(* getRecentFailedAttempts that counts from the last successful attempt on *)
getFailedAttemptsSinceSuccess(userId, minutes) ==
    Cardinality({i \in 1..Len(attempts) :
        /\ attempts[i].user_id = userId
        /\ attempts[i].success = FALSE
        /\ attempts[i].created_at > now - minutes
        /\ \A j \in i..Len(attempts) :
              attempts[j].user_id = userId => attempts[j].success = FALSE})

(* getRecentFailedAttempts without its time window *)
getFailedAttemptsEver(userId, minutes) ==
    Cardinality({i \in 1..Len(attempts) :
        attempts[i].user_id = userId /\ attempts[i].success = FALSE})

(* getRecentFailedAttempts with success = TRUE in place of success = FALSE *)
getRecentSuccessfulAttempts(userId, minutes) ==
    Cardinality({i \in 1..Len(attempts) :
        /\ attempts[i].user_id = userId
        /\ attempts[i].success = TRUE
        /\ attempts[i].created_at > now - minutes})

(* getRecentFailedAttempts with the logins refused for a wrong password
   counted as failed attempts *)
getFailedAttemptsAndPasswords(userId, minutes) ==
    Cardinality({i \in 1..Len(attempts) :
        /\ attempts[i].user_id = userId
        /\ attempts[i].success = FALSE
        /\ attempts[i].created_at > now - minutes}) + last.wrongPasswords

(* twoFactorModel.getRecentFailedAttempts: the number of the user's failed rows
   with created_at > DATE_SUB(CURRENT_TIMESTAMP, INTERVAL minutes MINUTE) *)
getRecentFailedAttempts(userId, minutes) ==
    Cardinality({i \in 1..Len(attempts) :
        /\ attempts[i].user_id = userId
        /\ attempts[i].success = FALSE
        /\ attempts[i].created_at > now - minutes})

(* twoFactorModel.log2FAAttempt *)
log2FAAttempt(userId, method, success, ipAddress) ==
    Append(attempts, [user_id |-> userId, method |-> method, success |-> success,
                      ip_address |-> ipAddress, created_at |-> now])

(* requestIp.getClientIp(req) *)
getClientIp(req) == req.ip

-----------------------------------------------------------------------------
(* Proofs a client can submit *)

NoCode == [kind |-> "none", val |-> "", at |-> 0]

(* What an authenticator app holding secret shows at minute t. *)
totp(secret, t) == [kind |-> "totp", val |-> secret, at |-> t]

typed(kind, val) == [kind |-> kind, val |-> val, at |-> 0]

(* The method and the code of the body of a verify-2fa request *)
NoProof == [method |-> "", code |-> NoCode]

(* speakeasy.totp.verify({secret, token, window: 2}) *)
totpVerify(secret, token) ==
    /\ token.kind = "totp"
    /\ token.val = secret
    /\ token.at >= now - TotpWindowMinutes
    /\ token.at <= now + TotpWindowMinutes

-----------------------------------------------------------------------------
(* Responses (utils/controller Response) *)

NoBody == [require2FA |-> FALSE, requireRoleSelection |-> FALSE,
           tempToken |-> NoToken, token |-> NoToken, availableRoles |-> {}]

ResponseError(message, code) ==
    [error |-> TRUE, status |-> code, message |-> message, body |-> NoBody]

ResponseOk(body) == [error |-> FALSE, status |-> 200, message |-> "", body |-> body]

ResponseOkMessage(message) ==
    [error |-> FALSE, status |-> 200, message |-> message, body |-> NoBody]

DeviceBlockedMessage ==
    "This device has been blocked from accessing this account. Please contact support or unblock from another device."

(* What the last completed call was and what it returned; wrongPasswords is
   the number of logins answered Invalid password so far, MaxWrongPasswords
   standing for that many or more. *)
Completed(op, userId, req, given, res) ==
    [op |-> op, endpoint |-> "", user |-> userId, device |-> extractDeviceInfo(req),
     given |-> given, proof |-> NoProof, lookupFails |-> FALSE,
     insertFails |-> FALSE, wrongPasswords |-> last.wrongPasswords, res |-> res]

(* The token a response carries, if any. *)
issuedBy(res) ==
    IF res.body.token # NoToken THEN {res.body.token}
    ELSE IF res.body.tempToken # NoToken THEN {res.body.tempToken}
    ELSE {}

-----------------------------------------------------------------------------
(* services/auth *)

(* isDeviceBlocked with the comparison of the browser and the os left out *)
isDeviceBlockedByIp(userId, req, lookupFails) ==
    \E session \in {s \in sessions : s.user_id = userId} :
        session.is_blocked /\ session.ip_address = req.ip

(* isDeviceBlocked that treats a failed lookup as a blocked device *)
isDeviceBlockedFailClosed(userId, req, lookupFails) ==
    \/ lookupFails
    \/ \E session \in {s \in sessions : s.user_id = userId} :
          /\ session.is_blocked
          /\ session.ip_address = extractDeviceInfo(req).ipAddress
          /\ session.browser = extractDeviceInfo(req).browser
          /\ session.os = extractDeviceInfo(req).os

(* isDeviceBlocked on the address as the request carries it, not normalised *)
isDeviceBlockedByRawIp(userId, req, lookupFails) ==
    \E session \in {s \in sessions : s.user_id = userId} :
        /\ session.is_blocked
        /\ session.ip_address = req.ip
        /\ session.browser = extractDeviceInfo(req).browser
        /\ session.os = extractDeviceInfo(req).os

(* isDeviceBlocked(userId, req); lookupFails: getUserSessions throws, which the
   function catches and answers false (the controllers always pass req). *)
isDeviceBlocked(userId, req, lookupFails) ==
    IF lookupFails THEN FALSE
    ELSE \E session \in getUserSessions(userId) :
            session.is_blocked /\ sameDevice(session, extractDeviceInfo(req))

(* Room for the token and for the device_session row a call may produce. *)
TokenRoom == Cardinality(tokens) < MaxTokens

SessionRoom == Cardinality(sessions) < MaxSessions

(* login; insertFails: the INSERT of createSession throws, which login,
   selectRole and verify2FAAndLogin catch and log before they go on. *)
login(email, password, req, lookupFails, insertFails) ==
    /\ LET user == getByEmail(email)
           done(res) ==
               [Completed("login", IF user = NoUser THEN "" ELSE user.id, req,
                          [email |-> email, password |-> password], res)
                   EXCEPT !.lookupFails = lookupFails, !.insertFails = insertFails]
           fail(message, code) ==
               /\ last' = done(ResponseError(message, code))
               /\ UNCHANGED <<users, sessions, tokens>>
       IN IF user = NoUser THEN fail("User does not exist", 404)
          ELSE IF ~bcryptCompare(password, user.password)
          THEN /\ last' = [done(ResponseError("Invalid password", 400))
                              EXCEPT !.wrongPasswords =
                                  IF @ < MaxWrongPasswords THEN @ + 1 ELSE @]
               /\ UNCHANGED <<users, sessions, tokens>>
          ELSE IF user.is_deleted THEN fail("User not found", 404)
          ELSE IF isDeviceBlocked(user.id, req, lookupFails)
          THEN fail(DeviceBlockedMessage, 403)
          ELSE LET twoFASettings == get2FASettings(user.id)
               IN IF twoFASettings # NoRow /\ twoFASettings.is_2fa_enabled
                  THEN LET tempToken == jwtSign(user.id, user.role, FALSE, TRUE,
                                                TempTokenMinutes)
                       IN /\ TokenRoom
                          /\ last' = done(ResponseOk([NoBody EXCEPT
                                !.require2FA = TRUE, !.tempToken = tempToken]))
                          /\ tokens' = tokens \cup {tempToken}
                          /\ UNCHANGED <<users, sessions>>
                  ELSE IF /\ user.role = ROLES.SUPER_ADMIN
                          /\ Cardinality(getUserRoleNames(user.id)) > 1
                  THEN LET tempToken == jwtSign(user.id, user.role, TRUE, FALSE,
                                                TempTokenMinutes)
                       IN /\ TokenRoom
                          /\ last' = done(ResponseOk([NoBody EXCEPT
                                !.requireRoleSelection = TRUE,
                                !.tempToken = tempToken,
                                !.availableRoles = getUserRoleNames(user.id)]))
                          /\ tokens' = tokens \cup {tempToken}
                          /\ UNCHANGED <<users, sessions>>
                  ELSE LET token == jwtSign(user.id, user.role, FALSE, FALSE,
                                            SessionTokenMinutes)
                       IN /\ TokenRoom
                          /\ SessionRoom
                          /\ sessions' = IF insertFails THEN sessions
                                 ELSE createSession(user.id, extractDeviceInfo(req))
                          /\ users' = updateLastLoggedIn(user.id)
                          /\ last' = done(ResponseOk([NoBody EXCEPT !.token = token]))
                          /\ tokens' = tokens \cup {token}
    /\ UNCHANGED <<now, userRoles, settings, authenticator, questions, backupCodes,
                   otps, attempts, inflight>>

(* The purpose tags of a decoded token: decoded.temp marks a role-selection
   token, decoded.temp2FA a second-factor-pending token. *)
decodedTemp(decoded) == decoded.temp

decodedTemp2FAAny(decoded) == TRUE

decodedTemp2FA(decoded) == decoded.temp2FA

selectRole(selectedRole, tempToken, req, lookupFails, insertFails) ==
    /\ LET verified == jwtVerify(tempToken)
           decoded == tempToken
           user == getById(decoded.id)
           done(userId, res) ==
               [Completed("selectRole", userId, req, tempToken, res)
                   EXCEPT !.lookupFails = lookupFails, !.insertFails = insertFails]
           fail(userId, message, code) ==
               /\ last' = done(userId, ResponseError(message, code))
               /\ UNCHANGED <<users, sessions, tokens>>
       IN IF tempToken = NoToken
          THEN fail("", "Temporary token is required in Authorization header", 401)
          ELSE IF verified = "TokenExpiredError"
          THEN fail("", "Role selection token expired. Please login again.", 401)
          ELSE IF verified = "JsonWebTokenError" THEN fail("", "Invalid token", 401)
          ELSE IF ~decodedTemp(decoded)
          THEN fail(decoded.id, "Invalid token. Please use the temporary token from login.", 401)
          ELSE IF user = NoUser THEN fail(decoded.id, "User does not exist", 404)
          ELSE IF user.role # ROLES.SUPER_ADMIN
          THEN fail(user.id, "Only super_admin can select roles", 403)
          ELSE IF user.is_deleted THEN fail(user.id, "User not found", 404)
          ELSE IF selectedRole \notin getUserRoleNames(user.id)
          THEN fail(user.id, "You do not have access to this role", 403)
          ELSE IF isDeviceBlocked(user.id, req, lookupFails)
          THEN fail(user.id, DeviceBlockedMessage, 403)
          ELSE LET token == jwtSign(user.id, selectedRole, FALSE, FALSE,
                                    SessionTokenMinutes)
               IN /\ TokenRoom
                  /\ SessionRoom
                  /\ sessions' = IF insertFails THEN sessions
                                 ELSE createSession(user.id, extractDeviceInfo(req))
                  /\ users' = updateLastLoggedIn(user.id)
                  /\ last' = done(user.id, ResponseOk([NoBody EXCEPT !.token = token]))
                  /\ tokens' = tokens \cup {token}
    /\ UNCHANGED <<now, userRoles, settings, authenticator, questions, backupCodes,
                   otps, attempts, inflight>>

(* authModel.insertOtp: expires_at defaults to ten minutes after the insert. *)
insertOtp(email, otp) ==
    otps \cup {[id |-> Cardinality(otps) + 1, email |-> email, otp |-> otp,
                expires_at |-> now + OtpMinutes, is_used |-> FALSE]}

(* send2FACode and twoFactorService.sendOneTimeCode; otp is what randomInt draws. *)
send2FACode(tempToken, otp, req) ==
    /\ LET verified == jwtVerify(tempToken)
           decoded == tempToken
           user == getById(decoded.id)
           done(userId, res) == Completed("send2FACode", userId, req, tempToken, res)
           fail(userId, message, code) ==
               /\ last' = done(userId, ResponseError(message, code))
               /\ UNCHANGED otps
       IN IF verified = "TokenExpiredError"
          THEN fail("", "Token expired. Please login again.", 401)
          ELSE IF verified = "JsonWebTokenError" THEN fail("", "Invalid token", 401)
          ELSE IF ~decodedTemp2FA(decoded)
          THEN fail(decoded.id, "Invalid token. Please login first.", 401)
          ELSE IF user = NoUser \/ user.is_deleted
          THEN fail(decoded.id, "User not found", 404)
          ELSE IF \/ get2FASettings(user.id) = NoRow
                  \/ ~get2FASettings(user.id).one_time_code_enabled
          THEN fail(user.id, "One-time code is not enabled", 400)
          ELSE /\ Cardinality(otps) < MaxOtps
               /\ otps' = insertOtp(user.email, otp)
               /\ last' = done(user.id,
                               ResponseOkMessage("Verification code sent to your email"))
    /\ UNCHANGED <<now, users, userRoles, settings, authenticator, questions,
                   backupCodes, attempts, sessions, tokens, inflight>>

-----------------------------------------------------------------------------
(* services/twoFactorVerification, one request slot p at a time.  A request
   moves from step to step at the awaits where another request can run. *)

Slots == DOMAIN inflight

goto(p, step, isValid) ==
    inflight' = [inflight EXCEPT ![p].step = step, ![p].isValid = isValid]

(* verify2FAAndLogin up to the dispatch of verify2FA: the token, the user and
   the lockout check. *)
verify2FAAndLogin(p, tempToken, method, code, answers, req, room) ==
    /\ inflight[p] = Idle
    /\ LET verified == jwtVerify(tempToken)
           decoded == tempToken
           user == getById(decoded.id)
           fail(userId, message, code_) ==
               /\ last' = [Completed("verify2FAAndLogin", userId, req, tempToken,
                                     ResponseError(message, code_))
                              EXCEPT !.proof = [method |-> method, code |-> code]]
               /\ UNCHANGED inflight
       IN IF verified = "TokenExpiredError"
          THEN fail("", "2FA token expired. Please login again.", 401)
          ELSE IF verified = "JsonWebTokenError" THEN fail("", "Invalid token", 401)
          ELSE IF ~decodedTemp2FA(decoded)
          THEN fail(decoded.id, "Invalid token. Please login first.", 401)
          ELSE IF user = NoUser \/ user.is_deleted
          THEN fail(decoded.id, "User not found", 404)
          ELSE IF getRecentFailedAttempts(user.id, LockoutWindowMinutes) >= LockoutThreshold
          THEN fail(user.id, "Too many failed attempts. Please try again in 30 minutes.", 429)
          ELSE /\ TokenRoom
               /\ SessionRoom
               /\ Len(attempts) < room
               /\ inflight' = [inflight EXCEPT ![p] =
                     [step |-> method, method |-> method, user |-> user, code |-> code,
                      answers |-> answers, req |-> req, given |-> tempToken,
                      isValid |-> FALSE, storedCode |-> NoRow]]
               /\ UNCHANGED last
    /\ UNCHANGED <<now, users, userRoles, settings, authenticator, questions,
                   backupCodes, otps, attempts, sessions, tokens>>

(* twoFactorModel.getAuthenticatorSecret: ORDER BY created_at DESC LIMIT 1 takes
   any of the newest rows; {NoRow} when the user has none. *)
getAuthenticatorSecret(userId) ==
    LET rows == authenticator[userId]
    IN IF rows = <<>> THEN {NoRow}
       ELSE {rows[i] : i \in {j \in 1..Len(rows) :
                                \A k \in 1..Len(rows) : rows[k].created_at <= rows[j].created_at}}

(* verifyAuthenticatorCode without the test of is_verified *)
verifyAuthenticatorCodeOfAnyRow(p) ==
    /\ inflight[p].step = "authenticator"
    /\ \E authData \in getAuthenticatorSecret(inflight[p].user.id) :
          LET r == inflight[p]
              userId == r.user.id
          IN IF authData = NoRow
             THEN /\ goto(p, "verified", FALSE)
                  /\ UNCHANGED attempts
             ELSE LET isValid == totpVerify(authData.secret, r.code)
                  IN /\ attempts' = log2FAAttempt(userId, "authenticator", isValid,
                                                  getClientIp(r.req))
                     /\ goto(p, "verified", isValid)
    /\ UNCHANGED <<now, users, userRoles, settings, authenticator, questions,
                   backupCodes, otps, sessions, tokens, last>>

verifyAuthenticatorCode(p) ==
    /\ inflight[p].step = "authenticator"
    /\ \E authData \in getAuthenticatorSecret(inflight[p].user.id) :
          LET r == inflight[p]
              userId == r.user.id
          IN IF authData = NoRow \/ ~authData.is_verified
             THEN /\ goto(p, "verified", FALSE)
                  /\ UNCHANGED attempts
             ELSE LET isValid == totpVerify(authData.secret, r.code)
                  IN /\ attempts' = log2FAAttempt(userId, "authenticator", isValid,
                                                  getClientIp(r.req))
                     /\ goto(p, "verified", isValid)
    /\ UNCHANGED <<now, users, userRoles, settings, authenticator, questions,
                   backupCodes, otps, sessions, tokens, last>>

(* authModel.verifyToken *)
(* authService.requestPasswordResetOTP; otp is what randomInt draws.  The
   answer is the same whether or not a code was stored. *)
requestPasswordResetOTP(email, otp, req) ==
    /\ LET user == getByEmail(email)
           done(userId) ==
               Completed("requestPasswordResetOTP", userId, req, NoToken,
                         ResponseOkMessage("If an account with that email exists, a password reset code has been sent."))
       IN IF user = NoUser THEN last' = done("") /\ UNCHANGED otps
          ELSE IF user.is_deleted \/ user.role # ROLES.SUPER_ADMIN
          THEN last' = done(user.id) /\ UNCHANGED otps
          ELSE /\ Cardinality(otps) < MaxOtps
               /\ otps' = insertOtp(user.email, otp)
               /\ last' = done(user.id)
    /\ UNCHANGED <<now, users, userRoles, settings, authenticator, questions,
                   backupCodes, attempts, sessions, tokens, inflight>>

verifyToken(email, otp) ==
    \E row \in otps :
        /\ row.otp = otp.val
        /\ row.email = email
        /\ row.expires_at > now
        /\ row.is_used = FALSE

(* authModel.updateOtpStatus *)
updateOtpStatus(email) ==
    {IF row.email = email THEN [row EXCEPT !.is_used = TRUE] ELSE row : row \in otps}

(* verifyOneTimeCode: the check and the ledger row *)
verifyOneTimeCode(p) ==
    /\ inflight[p].step = "one_time_code"
    /\ LET r == inflight[p]
           isValid == verifyToken(r.user.email, r.code)
       IN /\ attempts' = log2FAAttempt(r.user.id, "one_time_code", isValid,
                                       getClientIp(r.req))
          /\ goto(p, IF isValid THEN "markOtpUsed" ELSE "verified", isValid)
    /\ UNCHANGED <<now, users, userRoles, settings, authenticator, questions,
                   backupCodes, otps, sessions, tokens, last>>

(* verifyOneTimeCode: if (isValid) updateOtpStatus *)
verifyOneTimeCode_markUsed(p) ==
    /\ inflight[p].step = "markOtpUsed"
    /\ otps' = updateOtpStatus(inflight[p].user.email)
    /\ goto(p, "verified", TRUE)
    /\ UNCHANGED <<now, users, userRoles, settings, authenticator, questions,
                   backupCodes, attempts, sessions, tokens, last>>

(* twoFactorModel.getSecurityQuestions *)
getSecurityQuestions(userId) == {q \in questions : q.user_id = userId}

(* The loop as the documentation describes it: every answer must name one of
   the questions and match its hash. *)
RECURSIVE allCorrect(_, _, _)
allCorrect(qs, answers, i) ==
    IF i > Len(answers) THEN TRUE
    ELSE LET answer == answers[i]
             found == {q \in qs : q.id = answer.id}
         IN /\ found # {}
            /\ bcryptCompare(normalizeAnswer(answer.answer),
                             (CHOOSE q \in found : TRUE).answer_hash)
            /\ allCorrect(qs, answers, i + 1)

(* The loop of verifySecurityQuestionsCode over answers[i..]: true at the first
   answer that names one of the questions and matches its hash. *)
RECURSIVE atLeastOneCorrect(_, _, _)
atLeastOneCorrect(qs, answers, i) ==
    IF i > Len(answers) THEN FALSE
    ELSE LET answer == answers[i]
             found == {q \in qs : q.id = answer.id}
         IN IF found = {} THEN atLeastOneCorrect(qs, answers, i + 1)
            ELSE LET question == CHOOSE q \in found : TRUE
                 IN IF bcryptCompare(normalizeAnswer(answer.answer), question.answer_hash)
                    THEN TRUE
                    ELSE atLeastOneCorrect(qs, answers, i + 1)

verifySecurityQuestionsCode(p) ==
    /\ inflight[p].step = "security_question"
    /\ LET r == inflight[p]
           userId == r.user.id
           qs == getSecurityQuestions(userId)
       IN IF qs = {}
          THEN /\ goto(p, "verified", FALSE)
               /\ UNCHANGED attempts
          ELSE IF r.answers = <<>>
          THEN /\ attempts' = log2FAAttempt(userId, "security_question", FALSE,
                                            getClientIp(r.req))
               /\ goto(p, "verified", FALSE)
          ELSE LET ok == atLeastOneCorrect(qs, r.answers, 1)
               IN /\ attempts' = log2FAAttempt(userId, "security_question", ok,
                                               getClientIp(r.req))
                  /\ goto(p, "verified", ok)
    /\ UNCHANGED <<now, users, userRoles, settings, authenticator, questions,
                   backupCodes, otps, sessions, tokens, last>>

(* twoFactorModel.useBackupCode: marks the row used if it is still unused *)
useBackupCode(userId, codeHash) ==
    {IF c.user_id = userId /\ c.code_hash = codeHash /\ c.is_used = FALSE
     THEN [c EXCEPT !.is_used = TRUE] ELSE c : c \in backupCodes}

(* verifyBackupCode: SELECT the unused codes and compare each with the code *)
verifyBackupCode(p) ==
    /\ inflight[p].step = "backup_code"
    /\ LET r == inflight[p]
           userId == r.user.id
           codes == {c \in backupCodes : c.user_id = userId /\ c.is_used = FALSE}
           matching == {c \in codes : bcryptCompare(r.code.val, c.code_hash)}
       IN IF codes # {} /\ r.code = NoCode
          THEN \* bcrypt.compare(undefined, hash) throws: caught, nothing logged
               /\ goto(p, "verified", FALSE)
               /\ UNCHANGED attempts
          ELSE IF matching # {}
          THEN /\ inflight' = [inflight EXCEPT
                     ![p].step = "useBackupCode",
                     ![p].storedCode =
                         CHOOSE c \in matching : \A d \in matching : c.id <= d.id]
               /\ UNCHANGED attempts
          ELSE /\ attempts' = log2FAAttempt(userId, "backup_code", FALSE,
                                            getClientIp(r.req))
               /\ goto(p, "verified", FALSE)
    /\ UNCHANGED <<now, users, userRoles, settings, authenticator, questions,
                   backupCodes, otps, sessions, tokens, last>>

(* verifyBackupCode after the match: useBackupCode, then the success row *)
verifyBackupCode_use(p) ==
    /\ inflight[p].step = "useBackupCode"
    /\ LET r == inflight[p]
       IN /\ backupCodes' = useBackupCode(r.user.id, r.storedCode.code_hash)
          /\ attempts' = log2FAAttempt(r.user.id, "backup_code", TRUE,
                                       getClientIp(r.req))
    /\ goto(p, "verified", TRUE)
    /\ UNCHANGED <<now, users, userRoles, settings, authenticator, questions,
                   otps, sessions, tokens, last>>

(* A query of the verifier in slot p rejects (the store is down, the
   connection is lost): the catch block of the verifier logs to the console
   and returns false. *)
verifierThrows(p) ==
    /\ inflight[p].step \in {"authenticator", "one_time_code", "markOtpUsed",
                              "security_question", "backup_code", "useBackupCode"}
    /\ goto(p, "verified", FALSE)
    /\ UNCHANGED <<now, users, userRoles, settings, authenticator, questions,
                   backupCodes, otps, attempts, sessions, tokens, last>>

(* verify2FA after the verifier has returned, and the rest of
   verify2FAAndLogin *)
verify2FAAndLogin_finish(p, lookupFails, insertFails) ==
    /\ inflight[p].step = "verified"
    /\ LET r == inflight[p]
           user == r.user
           done(res) ==
               [Completed("verify2FAAndLogin", user.id, r.req, r.given, res)
                   EXCEPT !.lookupFails = lookupFails, !.insertFails = insertFails,
                          !.proof = [method |-> r.method, code |-> r.code]]
       IN IF ~r.isValid
          THEN /\ last' = done(ResponseError("Invalid verification", 400))
               /\ UNCHANGED <<users, sessions, tokens>>
          ELSE IF isDeviceBlocked(user.id, r.req, lookupFails)
          THEN /\ last' = done(ResponseError(DeviceBlockedMessage, 403))
               /\ UNCHANGED <<users, sessions, tokens>>
          ELSE IF /\ user.role = ROLES.SUPER_ADMIN
                  /\ Cardinality(getUserRoleNames(user.id)) > 1
          THEN LET roleSelectionToken == jwtSign(user.id, user.role, TRUE, FALSE,
                                                 TempTokenMinutes)
               IN /\ TokenRoom
                  /\ last' = done(ResponseOk([NoBody EXCEPT
                            !.requireRoleSelection = TRUE,
                            !.tempToken = roleSelectionToken,
                            !.availableRoles = getUserRoleNames(user.id)]))
                  /\ tokens' = tokens \cup {roleSelectionToken}
                  /\ UNCHANGED <<users, sessions>>
          ELSE LET token == jwtSign(user.id, user.role, FALSE, FALSE,
                                    SessionTokenMinutes)
               IN /\ TokenRoom
                  /\ SessionRoom
                  /\ sessions' = IF insertFails THEN sessions
                                 ELSE createSession(user.id, extractDeviceInfo(r.req))
                  /\ users' = updateLastLoggedIn(user.id)
                  /\ last' = done(ResponseOk([NoBody EXCEPT !.token = token]))
                  /\ tokens' = tokens \cup {token}
    /\ inflight' = [inflight EXCEPT ![p] = Idle]
    /\ UNCHANGED <<now, userRoles, settings, authenticator, questions, backupCodes,
                   otps, attempts>>

-----------------------------------------------------------------------------
(* Authentication middlewares (middleware/auth, middleware/businessAuth) *)

(* table business, which this model never changes *)
businessGetById(businessId) ==
    IF businessId = "b1"
    THEN [id |-> "b1", is_active |-> TRUE, owner_id |-> "owner"]
    ELSE NoRow

(* What a middleware decides before the device check: an error response, or
   next with the user and the effective role. *)
Next_(user, role) == [next |-> TRUE, user |-> user, role |-> role,
                      res |-> ResponseOkMessage("next")]

Reject(userId, message, code) ==
    [next |-> FALSE, user |-> [id |-> userId], role |-> "",
     res |-> ResponseError(message, code)]

authenticate(token) ==
    LET verified == jwtVerify(token)
        decoded == token
        user == getById(decoded.id)
    IN IF token = NoToken THEN Reject("", "Authentication required. Please log in.", 401)
       ELSE IF verified = "TokenExpiredError"
       THEN Reject("", "Token expired. Please log in again.", 401)
       ELSE IF verified = "JsonWebTokenError"
       THEN Reject("", "Invalid token. Please log in again.", 401)
       ELSE IF decoded.temp \/ decoded.temp2FA
       THEN Reject(decoded.id, "Please complete authentication process first", 401)
       ELSE IF user = NoUser \/ user.is_deleted
       THEN Reject(decoded.id, "User not found or account deactivated", 401)
       ELSE IF ~user.is_active THEN Reject(user.id, "Account is inactive", 403)
       ELSE Next_(user, decoded.role)

(* authenticateSuperAdmin that tests the stored role of the user *)
authenticateSuperAdminByStoredRole(token) ==
    LET verified == jwtVerify(token)
        decoded == token
        user == getById(decoded.id)
    IN IF token = NoToken THEN Reject("", "Authentication required. Please log in.", 401)
       ELSE IF verified = "TokenExpiredError"
       THEN Reject("", "Token expired. Please log in again.", 401)
       ELSE IF verified = "JsonWebTokenError"
       THEN Reject("", "Invalid token. Please log in again.", 401)
       ELSE IF decoded.temp
       THEN Reject(decoded.id, "Please complete role selection first", 401)
       ELSE IF user = NoUser \/ user.is_deleted
       THEN Reject(decoded.id, "User not found or account deactivated", 401)
       ELSE IF ~user.is_active THEN Reject(user.id, "Account is inactive", 403)
       ELSE IF user.role # ROLES.SUPER_ADMIN
       THEN Reject(user.id, "Only super admin can perform this action", 403)
       ELSE Next_(user, user.role)

authenticateSuperAdmin(token) ==
    LET verified == jwtVerify(token)
        decoded == token
        user == getById(decoded.id)
    IN IF token = NoToken THEN Reject("", "Authentication required. Please log in.", 401)
       ELSE IF verified = "TokenExpiredError"
       THEN Reject("", "Token expired. Please log in again.", 401)
       ELSE IF verified = "JsonWebTokenError"
       THEN Reject("", "Invalid token. Please log in again.", 401)
       ELSE IF decoded.temp
       THEN Reject(decoded.id, "Please complete role selection first", 401)
       ELSE IF user = NoUser \/ user.is_deleted
       THEN Reject(decoded.id, "User not found or account deactivated", 401)
       ELSE IF ~user.is_active THEN Reject(user.id, "Account is inactive", 403)
       ELSE IF decoded.role # ROLES.SUPER_ADMIN
       THEN Reject(user.id, "Only super admin can perform this action", 403)
       ELSE Next_(user, decoded.role)

authenticateBusinessAdmin(token) ==
    LET verified == jwtVerify(token)
        decoded == token
        user == getById(decoded.id)
    IN IF token = NoToken THEN Reject("", "Unauthorized", 401)
       ELSE IF verified # "ok" THEN Reject("", "Invalid token", 401)
       ELSE IF decoded.temp
       THEN Reject(decoded.id, "Please complete role selection first", 401)
       ELSE IF user = NoUser THEN Reject(decoded.id, "Unauthorized", 401)
       ELSE IF user.account_name # "business"
       THEN Reject(user.id, "Only business accounts can manage users", 403)
       ELSE IF decoded.role \notin ADMIN_ROLES
       THEN Reject(user.id, "Only admins can manage business users", 403)
       ELSE IF user.business_id = ""
       THEN Reject(user.id, "User must be associated with a business", 403)
       ELSE IF \/ businessGetById(user.business_id) = NoRow
               \/ ~businessGetById(user.business_id).is_active
       THEN Reject(user.id, "Business not found or inactive", 404)
       ELSE Next_(user, decoded.role)

Middlewares == {"authenticate", "authenticateSuperAdmin", "authenticateBusinessAdmin"}

runMiddleware(mw, token) ==
    CASE mw = "authenticate" -> authenticate(token)
      [] mw = "authenticateSuperAdmin" -> authenticateSuperAdmin(token)
      [] mw = "authenticateBusinessAdmin" -> authenticateBusinessAdmin(token)

(* checkDeviceBlocked: sessions.find(...) takes the first session of this device
   in the order of getUserSessions, last_active DESC; rows with equal
   last_active come in any order. *)
currentSessions(userId, req) ==
    LET mine == {s \in getUserSessions(userId) : sameDevice(s, extractDeviceInfo(req))}
    IN {s \in mine : \A t \in mine : t.last_active <= s.last_active}

(* The services behind the device-session routes (services/deviceSession) *)
blockDevice(userId, sessionId, req) ==
    LET session == getSessionById(sessionId)
    IN IF session = NoRow
       THEN [res |-> ResponseError("Device session not found", 404), rows |-> sessions]
       ELSE IF session.user_id # userId
       THEN [res |-> ResponseError("Unauthorized to block this device", 403),
             rows |-> sessions]
       ELSE IF isCurrentDevice(req, session)
       THEN [res |-> ResponseError("Cannot block your current device", 400),
             rows |-> sessions]
       ELSE [res |-> ResponseOkMessage("Device blocked successfully. This device can no longer access your account."),
             rows |-> blockSession(sessionId)]

unblockDevice(userId, sessionId) ==
    LET session == getSessionById(sessionId)
    IN IF session = NoRow
       THEN [res |-> ResponseError("Device session not found", 404), rows |-> sessions]
       ELSE IF session.user_id # userId
       THEN [res |-> ResponseError("Unauthorized to unblock this device", 403),
             rows |-> sessions]
       ELSE [res |-> ResponseOkMessage("Device unblocked successfully. This device can now access your account again."),
             rows |-> unblockSession(sessionId)]

(* deviceSessionModel.deleteSession *)
deleteSession(rows, sessionId) == {s \in rows : s.id # sessionId}

revokeDevice(userId, sessionId, req) ==
    LET session == getSessionById(sessionId)
    IN IF session = NoRow
       THEN [res |-> ResponseError("Device session not found", 404), rows |-> sessions]
       ELSE IF session.user_id # userId
       THEN [res |-> ResponseError("Unauthorized to revoke this device", 403),
             rows |-> sessions]
       ELSE IF isCurrentDevice(req, session)
       THEN [res |-> ResponseError("Cannot revoke your current device session", 400),
             rows |-> sessions]
       ELSE [res |-> ResponseOkMessage("Device session revoked successfully. This device has been logged out."),
             rows |-> deleteSession(sessions, sessionId)]

(* "Successfully logged out ${revokedCount} device(s)" *)
revokedMessage(revokedCount) ==
    CASE revokedCount = 0 -> "Successfully logged out 0 device(s)"
      [] revokedCount = 1 -> "Successfully logged out 1 device(s)"
      [] revokedCount = 2 -> "Successfully logged out 2 device(s)"
      [] revokedCount = 3 -> "Successfully logged out 3 device(s)"
      [] OTHER -> "Successfully logged out 4 or more device(s)"

(* The loop over getUserSessions deletes every session that is not of the
   current device. *)
revokeAllOtherDevices(userId, req) ==
    LET others == {s \in getUserSessions(userId) : ~isCurrentDevice(req, s)}
    IN [res |-> ResponseOkMessage(revokedMessage(Cardinality(others))),
        rows |-> sessions \ others]

(* controllers/businessUser removeBusinessUser, which soft-deletes the target;
   user is req.user, the row the middleware loaded. *)
removeBusinessUser(user, targetId) ==
    LET targetUser == getById(targetId)
        no(message, code) == [res |-> ResponseError(message, code), rows |-> users]
    IN IF targetUser = NoUser THEN no("User not found", 404)
       ELSE IF targetUser.business_id # user.business_id
       THEN no("User does not belong to your business", 403)
       ELSE IF businessGetById(user.business_id).owner_id = targetId
       THEN no("Cannot remove business owner", 403)
       ELSE IF user.role = ROLES.SUPER_ADMIN /\ targetUser.role # ROLES.ADMIN
       THEN no("Super admin can only remove admin users. Login as admin to manage members.", 403)
       ELSE IF user.role = ROLES.ADMIN /\ targetUser.role = ROLES.ADMIN
       THEN no("Admins cannot remove admin users. Login as super_admin to manage admins.", 403)
       ELSE IF user.role \notin {ROLES.SUPER_ADMIN, ROLES.ADMIN}
       THEN no("You do not have permission to remove users", 403)
       ELSE [res |-> ResponseOkMessage("User removed successfully"),
             rows |-> [users EXCEPT ![targetId].is_deleted = TRUE]]

(* controllers/businessUser updateBusinessUserRole; user is req.user, the row
   the middleware loaded, role the role of the body. *)
BUSINESS_USER_ROLES == {ROLES.STANDARD_USER, ROLES.ADMIN, ROLES.MANAGER}

updateRole(id, role) == [users EXCEPT ![id].role = role]

updateBusinessUserRole(user, targetId, role) ==
    LET targetUser == getById(targetId)
        no(message, code) == [res |-> ResponseError(message, code), rows |-> users]
    IN IF role \notin BUSINESS_USER_ROLES THEN no("Validation error", 400)
       ELSE IF targetUser = NoUser THEN no("User not found", 404)
       ELSE IF targetUser.business_id # user.business_id
       THEN no("User does not belong to your business", 403)
       ELSE IF businessGetById(user.business_id).owner_id = targetId
       THEN no("Cannot change owner's role", 403)
       ELSE IF user.role = ROLES.SUPER_ADMIN /\ targetUser.role # ROLES.ADMIN
               /\ role # ROLES.ADMIN
       THEN no("Super admin can only manage admin users. Login as admin to manage members.", 403)
       ELSE IF user.role = ROLES.ADMIN /\ (targetUser.role = ROLES.ADMIN \/ role = ROLES.ADMIN)
       THEN no("Admins cannot modify admin users. Login as super_admin to manage admins.", 403)
       ELSE IF user.role \notin {ROLES.SUPER_ADMIN, ROLES.ADMIN}
       THEN no("You do not have permission to update user roles", 403)
       ELSE [res |-> ResponseOkMessage("User role updated successfully"),
             rows |-> updateRole(targetId, role)]

(* userRolesModel: the active rows of user_roles *)
userHasRole(userId, role) == role \in userRoles[userId]

(* can_reassign of the user's row for a role the user has a row for: true
   from initializeUserRoles on, false once removeUserRole has made the row
   inactive with preventReassign. *)
canReassignRole(userId, role) == role \in userRoles[userId]

countOtherUsersWithRoleInBusiness(role, excludeUserId, businessId) ==
    Cardinality({u \in UserIds : /\ u # excludeUserId
                                 /\ role \in userRoles[u]
                                 /\ users[u].business_id = businessId
                                 /\ ~users[u].is_deleted
                                 /\ users[u].is_active})

removeUserRole(userId, role) == [userRoles EXCEPT ![userId] = @ \ {role}]

(* services/auth removeSelfFromAdmin *)
removeSelfFromAdmin(userId) ==
    LET user == getById(userId)
        no(message, code) == [res |-> ResponseError(message, code), rows |-> userRoles]
    IN IF user = NoUser \/ user.is_deleted THEN no("User not found", 404)
       ELSE IF user.role # ROLES.SUPER_ADMIN
       THEN no("Only super_admin can remove themselves from admin role", 403)
       ELSE IF ~userHasRole(userId, ROLES.ADMIN)
       THEN no("You do not have the admin role", 400)
       ELSE IF ~canReassignRole(userId, ROLES.ADMIN)
       THEN no("Admin role has already been permanently removed and cannot be modified", 400)
       ELSE IF user.business_id = ""
       THEN no("User is not associated with any business", 400)
       ELSE IF countOtherUsersWithRoleInBusiness(ROLES.ADMIN, userId, user.business_id) = 0
       THEN no("Cannot remove admin role. You are the only admin in your business. Please assign admin role to another user in your business first.", 400)
       ELSE [res |-> ResponseOkMessage("Admin role removed successfully. You can no longer act as admin and this cannot be undone."),
             rows |-> removeUserRole(userId, ROLES.ADMIN)]

(* twoFactorModel.upsert2FASettings: the row it writes *)
upsert2FASettings(authEnabled, passkeyEnabled, otcEnabled, sqEnabled) ==
    [authenticator_enabled |-> authEnabled,
     passkey_enabled |-> passkeyEnabled,
     one_time_code_enabled |-> otcEnabled,
     security_question_enabled |-> sqEnabled,
     is_2fa_enabled |-> authEnabled \/ passkeyEnabled \/ otcEnabled \/ sqEnabled]

(* twoFactorService.disableOneTimeCode: the settings table afterwards.  Without
   a row the other three flags are undefined, stored as NULL, which every
   reader treats as false. *)
disableOneTimeCode(userId) ==
    LET row == get2FASettings(userId)
    IN [settings EXCEPT ![userId] =
           IF row = NoRow THEN upsert2FASettings(FALSE, FALSE, FALSE, FALSE)
           ELSE upsert2FASettings(row.authenticator_enabled, row.passkey_enabled,
                                  FALSE, row.security_question_enabled)]

(* What crypto.randomBytes(4).toString("hex").toUpperCase() yields in the
   loop of generateBackupCodes, in three generations. *)
RandomCodes ==
    <<<<"3FA9C1D2", "B07E44A1", "1C5D0E77", "9A2B6F03", "E41D88C0",
        "57F3A9B6", "0D6C2E91", "C8B10F4A", "72E95D3C", "A6043BF8">>,
      <<"4B81E0A7", "D2F6093C", "68A4C5E1", "F19D7B20", "05C3E84D",
        "BE720A96", "3A9F61D5", "81D4B7F2", "CF058E6B", "269B3C04">>,
      <<"9E14D7A3", "70BC25F8", "E5A90C41", "1B67F3D9", "C40E8A52",
        "5D93B60F", "A87F1E24", "36C2D905", "FB4A07C6", "02D8E59B">>>>

generateBackupCodes(generation) ==
    [i \in 1..BackupCodeCount |-> RandomCodes[generation][i]]

GeneratedCodes == generateBackupCodes(1)

(* The first n ids from this one on that no row has. *)
RECURSIVE freeIds(_, _, _)
freeIds(taken, from, n) ==
    IF n = 0 THEN <<>>
    ELSE IF from \in taken THEN freeIds(taken, from + 1, n)
    ELSE <<from>> \o freeIds(taken, from + 1, n - 1)

(* twoFactorModel.saveBackupCodes: the unused codes of the user are deleted,
   the new ones inserted under ids no remaining row has *)
saveBackupCodes(userId, codes) ==
    LET kept == {c \in backupCodes : ~(c.user_id = userId /\ c.is_used = FALSE)}
        ids == freeIds({c.id : c \in kept}, 1, Len(codes))
    IN kept \cup {[id |-> ids[i], user_id |-> userId,
                   code_hash |-> bcryptHash(codes[i]), is_used |-> FALSE] :
                      i \in 1..Len(codes)}

(* twoFactorService.enableOneTimeCode with generateBackupCodes; codes are the
   codes crypto.randomBytes yields. *)
enableOneTimeCode(userId, codes) ==
    LET row == get2FASettings(userId)
    IN [settings |->
           [settings EXCEPT ![userId] =
               IF row = NoRow THEN upsert2FASettings(FALSE, FALSE, TRUE, FALSE)
               ELSE upsert2FASettings(row.authenticator_enabled, row.passkey_enabled,
                                      TRUE, row.security_question_enabled)],
        backupCodes |-> saveBackupCodes(userId, codes)]

(* setupSecurityQuestionsSchema with the bounds of the array only *)
setupSecurityQuestionsSchemaOfArray(body) == Len(body) >= 3 /\ Len(body) <= 5

(* setupSecurityQuestionsSchema.parse(req.body) succeeds: an array of 3 to 5
   entries, each a question of 5 to 500 characters with an answer of 2 to 200
   characters. *)
setupSecurityQuestionsSchema(body) ==
    /\ Len(body) >= 3
    /\ Len(body) <= 5
    /\ \A i \in 1..Len(body) :
          /\ Len(body[i].question) >= 5
          /\ Len(body[i].question) <= 500
          /\ Len(body[i].answer) >= 2
          /\ Len(body[i].answer) <= 200

(* twoFactorModel.saveSecurityQuestions as twoFactorService calls it: the rows
   inserted, the answers hashed after toLowerCase().trim() *)
saveSecurityQuestions(userId, qas) ==
    {[id |-> i, user_id |-> userId, question |-> qas[i].question,
      answer_hash |-> bcryptHash(normalizeAnswer(qas[i].answer))] : i \in 1..Len(qas)}

(* setupSecurityQuestions with a saveSecurityQuestions that deletes nothing
   and numbers the new rows after the old ones *)
setupSecurityQuestionsBesideOld(userId, body, codes) ==
    LET row == get2FASettings(userId)
        old == {q \in questions : q.user_id = userId}
        same == [res |-> ResponseError("Validation error", 400),
                 questions |-> questions, settings |-> settings,
                 backupCodes |-> backupCodes]
    IN IF ~setupSecurityQuestionsSchema(body) THEN same
       ELSE [res |-> ResponseOkMessage("Security questions enabled successfully"),
             questions |-> questions \cup
                 {[q EXCEPT !.id = @ + Cardinality(old)] :
                     q \in saveSecurityQuestions(userId, body)},
             settings |->
                 [settings EXCEPT ![userId] =
                     IF row = NoRow THEN upsert2FASettings(FALSE, FALSE, FALSE, TRUE)
                     ELSE upsert2FASettings(row.authenticator_enabled, row.passkey_enabled,
                                            row.one_time_code_enabled, TRUE)],
             backupCodes |-> saveBackupCodes(userId, codes)]

(* twoFactorService.setupSecurityQuestions behind its controller, which
   answers Validation error unless the body parses; codes are the codes
   crypto.randomBytes yields. *)
setupSecurityQuestions(userId, body, codes) ==
    LET row == get2FASettings(userId)
        same == [res |-> ResponseError("Validation error", 400),
                 questions |-> questions, settings |-> settings,
                 backupCodes |-> backupCodes]
    IN IF ~setupSecurityQuestionsSchema(body) THEN same
       ELSE [res |-> ResponseOkMessage("Security questions enabled successfully"),
             questions |-> {q \in questions : q.user_id # userId}
                              \cup saveSecurityQuestions(userId, body),
             settings |->
                 [settings EXCEPT ![userId] =
                     IF row = NoRow THEN upsert2FASettings(FALSE, FALSE, FALSE, TRUE)
                     ELSE upsert2FASettings(row.authenticator_enabled, row.passkey_enabled,
                                            row.one_time_code_enabled, TRUE)],
             backupCodes |-> saveBackupCodes(userId, codes)]

(* The controller behind a route; arg is the :sessionId or :userId parameter.
   It answers with the response and the tables as it leaves them. *)
(* twoFactorService.disableSecurityQuestions as one call *)
disableSecurityQuestionsCall(userId) ==
    LET row == get2FASettings(userId)
    IN [questions |-> {q \in questions : q.user_id # userId},
        settings |->
            [settings EXCEPT ![userId] =
                IF row = NoRow THEN upsert2FASettings(FALSE, FALSE, FALSE, FALSE)
                ELSE upsert2FASettings(row.authenticator_enabled, row.passkey_enabled,
                                       row.one_time_code_enabled, FALSE)]]

(* twoFactorModel.getRemainingBackupCodesCount *)
getRemainingBackupCodesCount(userId) ==
    Cardinality({c \in backupCodes : c.user_id = userId /\ c.is_used = FALSE})

(* twoFactorService.get2FAStatus: the data of its response (passkeys are not
   part of the model) *)
get2FAStatus(userId) ==
    LET row == get2FASettings(userId)
    IN [is2FAEnabled |-> row # NoRow /\ row.is_2fa_enabled,
        authenticator |-> [enabled |-> row # NoRow /\ row.authenticator_enabled],
        oneTimeCode |-> [enabled |-> row # NoRow /\ row.one_time_code_enabled],
        securityQuestion |->
            [enabled |-> row # NoRow /\ row.security_question_enabled,
             count |-> Cardinality(getSecurityQuestions(userId))],
        backupCodesRemaining |-> getRemainingBackupCodesCount(userId)]

(* Response.ok(data) of get2FAStatus *)
statusBody(status) ==
    [require2FA |-> FALSE, requireRoleSelection |-> FALSE, tempToken |-> NoToken,
     token |-> NoToken, availableRoles |-> {}, status |-> status]

controller(endpoint, auth, req, arg) ==
    LET same == [res |-> auth.res, sessions |-> sessions, users |-> users,
                 settings |-> settings, backupCodes |-> backupCodes,
                 userRoles |-> userRoles, questions |-> questions]
        \* { id: req.user_id, role: req.role, business_id: req.business_id }
        user == [id |-> auth.user.id, role |-> auth.role,
                 business_id |-> auth.user.business_id]
    IN CASE endpoint = "blockDevice" ->
               [same EXCEPT !.res = blockDevice(auth.user.id, arg, req).res,
                            !.sessions = blockDevice(auth.user.id, arg, req).rows]
         [] endpoint = "unblockDevice" ->
               [same EXCEPT !.res = unblockDevice(auth.user.id, arg).res,
                            !.sessions = unblockDevice(auth.user.id, arg).rows]
         [] endpoint = "revokeDevice" ->
               [same EXCEPT !.res = revokeDevice(auth.user.id, arg, req).res,
                            !.sessions = revokeDevice(auth.user.id, arg, req).rows]
         [] endpoint = "revokeAllOtherDevices" ->
               [same EXCEPT !.res = revokeAllOtherDevices(auth.user.id, req).res,
                            !.sessions = revokeAllOtherDevices(auth.user.id, req).rows]
         [] endpoint = "removeBusinessUser" ->
               [same EXCEPT !.res = removeBusinessUser(user, arg).res,
                            !.users = removeBusinessUser(user, arg).rows]
         [] endpoint = "updateBusinessUserRole" ->
               [same EXCEPT !.res = updateBusinessUserRole(user, arg.userId, arg.role).res,
                            !.users = updateBusinessUserRole(user, arg.userId, arg.role).rows]
         [] endpoint = "removeSelfFromAdmin" ->
               [same EXCEPT !.res = removeSelfFromAdmin(auth.user.id).res,
                            !.userRoles = removeSelfFromAdmin(auth.user.id).rows]
         [] endpoint = "disableOneTimeCode" ->
               [same EXCEPT !.res = ResponseOkMessage("One-time code disabled successfully"),
                            !.settings = disableOneTimeCode(auth.user.id)]
         [] endpoint = "enableOneTimeCode" ->
               [same EXCEPT !.res = ResponseOkMessage("One-time code via email enabled successfully"),
                            !.settings = enableOneTimeCode(auth.user.id, arg).settings,
                            !.backupCodes = enableOneTimeCode(auth.user.id, arg).backupCodes]
         [] endpoint = "setupSecurityQuestions" ->
               [same EXCEPT
                   !.res = setupSecurityQuestions(auth.user.id, arg.body, arg.codes).res,
                   !.questions = setupSecurityQuestions(auth.user.id, arg.body,
                                                        arg.codes).questions,
                   !.settings = setupSecurityQuestions(auth.user.id, arg.body,
                                                       arg.codes).settings,
                   !.backupCodes = setupSecurityQuestions(auth.user.id, arg.body,
                                                          arg.codes).backupCodes]
         [] endpoint = "disableSecurityQuestions" ->
               [same EXCEPT
                   !.res = ResponseOkMessage("Security questions disabled successfully"),
                   !.questions = disableSecurityQuestionsCall(auth.user.id).questions,
                   !.settings = disableSecurityQuestionsCall(auth.user.id).settings]
         [] endpoint = "get2FAStatus" ->
               [same EXCEPT !.res = ResponseOk(statusBody(get2FAStatus(auth.user.id)))]
         [] OTHER -> same

(* A request to a route guarded by middleware mw: the middleware, then
   checkDeviceBlocked, then the controller.  lookupFails: getUserSessions
   throws inside checkDeviceBlocked, which then calls next(). *)
request(mw, endpoint, token, req, arg, lookupFails) ==
    /\ LET auth == runMiddleware(mw, token)
           cur == currentSessions(auth.user.id, req)
           done(res) == [Completed(mw, auth.user.id, req, token, res)
                            EXCEPT !.endpoint = endpoint, !.lookupFails = lookupFails]
           out == controller(endpoint, auth, req, arg)
       IN IF ~auth.next
          THEN /\ last' = done(auth.res)
               /\ UNCHANGED <<sessions, users, settings, backupCodes, userRoles, questions>>
          ELSE IF lookupFails \/ cur = {}
          THEN \* no session of this device, or the check failed: next()
               /\ sessions' = out.sessions
               /\ users' = out.users
               /\ settings' = out.settings
               /\ backupCodes' = out.backupCodes
               /\ userRoles' = out.userRoles
               /\ questions' = out.questions
               /\ last' = done(out.res)
          ELSE \E currentSession \in cur :
                  IF currentSession.is_blocked
                  THEN /\ last' = done(ResponseError(DeviceBlockedMessage, 403))
                       /\ UNCHANGED <<sessions, users, settings, backupCodes, userRoles, questions>>
                  ELSE \* updateLastActive(currentSession.id), next()
                       /\ sessions' = updateLastActive(out.sessions, currentSession.id)
                       /\ users' = out.users
                       /\ settings' = out.settings
                       /\ backupCodes' = out.backupCodes
                       /\ userRoles' = out.userRoles
                       /\ questions' = out.questions
                       /\ last' = done(out.res)
    /\ UNCHANGED <<now, authenticator, otps, attempts, tokens, inflight>>

(* The way into a controller whose service runs in steps: the middleware,
   then checkDeviceBlocked, then proceed with the device_session rows as the
   check leaves them, or refuse with a response. *)
admit(token, req, proceed(_, _), refuse(_, _)) ==
    LET auth == runMiddleware("authenticateBusinessAdmin", token)
        cur == currentSessions(auth.user.id, req)
    IN IF ~auth.next THEN refuse(auth, auth.res)
       ELSE IF cur = {} THEN proceed(auth, sessions)
       ELSE \E currentSession \in cur :
               IF currentSession.is_blocked
               THEN refuse(auth, ResponseError(DeviceBlockedMessage, 403))
               ELSE proceed(auth, updateLastActive(sessions, currentSession.id))

(* What a controller answers at the end of a service that ran in steps. *)
answered(endpoint, r, res) ==
    [Completed("authenticateBusinessAdmin", r.user.id, r.req, r.given, res)
        EXCEPT !.endpoint = endpoint]

(* POST /2fa/backup-codes/regenerate in its steps.  The first: the middleware,
   checkDeviceBlocked, the hashing of the new codes and the DELETE of
   saveBackupCodes.  The rows of a generation are numbered by generation and
   position, ids no other row has. *)
regenerateBackupCodes(p, token, req, generation) ==
    /\ inflight[p] = Idle
    /\ LET refuse(auth, res) ==
               /\ last' = answered("regenerateBackupCodes",
                                   [user |-> auth.user, req |-> req, given |-> token], res)
               /\ UNCHANGED <<sessions, backupCodes, inflight>>
           proceed(auth, rows) ==
               /\ sessions' = rows
               /\ backupCodes' = {c \in backupCodes :
                                     ~(c.user_id = auth.user.id /\ c.is_used = FALSE)}
               /\ inflight' = [inflight EXCEPT ![p] =
                     [step |-> "insertBackupCodes", user |-> auth.user,
                      generation |-> generation, inserted |-> 0,
                      req |-> req, given |-> token]]
               /\ UNCHANGED last
       IN admit(token, req, proceed, refuse)
    /\ UNCHANGED <<now, users, userRoles, settings, authenticator, questions,
                   otps, attempts, tokens>>

(* One INSERT of the loop of saveBackupCodes. *)
saveBackupCodes_insert(p) ==
    /\ inflight[p].step = "insertBackupCodes"
    /\ inflight[p].inserted < BackupCodeCount
    /\ LET r == inflight[p]
           i == r.inserted + 1
       IN /\ backupCodes' = backupCodes \cup
                {[id |-> BackupCodeCount * (r.generation - 1) + i,
                  user_id |-> r.user.id,
                  code_hash |-> bcryptHash(generateBackupCodes(r.generation)[i]),
                  is_used |-> FALSE]}
          /\ inflight' = [inflight EXCEPT ![p].inserted = i]
    /\ UNCHANGED <<now, users, userRoles, settings, authenticator, questions,
                   otps, attempts, sessions, tokens, last>>

(* The loop is over: regenerateBackupCodes answers with the codes. *)
regenerateBackupCodes_finish(p) ==
    /\ inflight[p].step = "insertBackupCodes"
    /\ inflight[p].inserted = BackupCodeCount
    /\ last' = answered("regenerateBackupCodes", inflight[p],
                        ResponseOkMessage("New backup codes generated. Save them in a safe place."))
    /\ inflight' = [inflight EXCEPT ![p] = Idle]
    /\ UNCHANGED <<now, users, userRoles, settings, authenticator, questions,
                   backupCodes, otps, attempts, sessions, tokens>>

(* POST /2fa/security-questions/setup in its steps.  The first: the
   middleware, checkDeviceBlocked, the parse of the body, the hashing of the
   answers and the DELETE of saveSecurityQuestions. *)
setupSecurityQuestions_delete(p, token, req, body) ==
    /\ inflight[p] = Idle
    /\ LET refuse(auth, res) ==
               /\ last' = answered("setupSecurityQuestions",
                                   [user |-> auth.user, req |-> req, given |-> token], res)
               /\ UNCHANGED <<sessions, questions, inflight>>
           proceed(auth, rows) ==
               IF ~setupSecurityQuestionsSchema(body)
               THEN /\ last' = answered("setupSecurityQuestions",
                                        [user |-> auth.user, req |-> req, given |-> token],
                                        ResponseError("Validation error", 400))
                    /\ sessions' = rows
                    /\ UNCHANGED <<questions, inflight>>
               ELSE /\ sessions' = rows
                    /\ questions' = {q \in questions : q.user_id # auth.user.id}
                    /\ inflight' = [inflight EXCEPT ![p] =
                          [step |-> "insertSecurityQuestions", user |-> auth.user,
                           body |-> body, inserted |-> 0, req |-> req, given |-> token]]
                    /\ UNCHANGED last
       IN admit(token, req, proceed, refuse)
    /\ UNCHANGED <<now, users, userRoles, settings, authenticator, backupCodes,
                   otps, attempts, tokens>>

(* One INSERT of the loop of saveSecurityQuestions. *)
saveSecurityQuestions_insert(p) ==
    /\ inflight[p].step = "insertSecurityQuestions"
    /\ inflight[p].inserted < Len(inflight[p].body)
    /\ LET r == inflight[p]
           i == r.inserted + 1
       IN /\ questions' = questions \cup
                {row \in saveSecurityQuestions(r.user.id, r.body) : row.id = i}
          /\ inflight' = [inflight EXCEPT ![p].inserted = i]
    /\ UNCHANGED <<now, users, userRoles, settings, authenticator, backupCodes,
                   otps, attempts, sessions, tokens, last>>

(* After the loop: get2FASettings and upsert2FASettings with
   security_question_enabled: true. *)
setupSecurityQuestions_enable(p) ==
    /\ inflight[p].step = "insertSecurityQuestions"
    /\ inflight[p].inserted = Len(inflight[p].body)
    /\ LET userId == inflight[p].user.id
           row == get2FASettings(userId)
       IN settings' = [settings EXCEPT ![userId] =
              IF row = NoRow THEN upsert2FASettings(FALSE, FALSE, FALSE, TRUE)
              ELSE upsert2FASettings(row.authenticator_enabled, row.passkey_enabled,
                                     row.one_time_code_enabled, TRUE)]
    /\ inflight' = [inflight EXCEPT ![p].step = "generateBackupCodes"]
    /\ UNCHANGED <<now, users, userRoles, authenticator, questions, backupCodes,
                   otps, attempts, sessions, tokens, last>>

(* generateBackupCodes and the response. *)
setupSecurityQuestions_finish(p) ==
    /\ inflight[p].step = "generateBackupCodes"
    /\ backupCodes' = saveBackupCodes(inflight[p].user.id, GeneratedCodes)
    /\ last' = answered("setupSecurityQuestions", inflight[p],
                        ResponseOkMessage("Security questions enabled successfully"))
    /\ inflight' = [inflight EXCEPT ![p] = Idle]
    /\ UNCHANGED <<now, users, userRoles, settings, authenticator, questions,
                   otps, attempts, sessions, tokens>>

(* POST /2fa/security-questions/disable in its steps.  The first: the
   middleware, checkDeviceBlocked and deleteSecurityQuestions. *)
disableSecurityQuestions(p, token, req) ==
    /\ inflight[p] = Idle
    /\ LET refuse(auth, res) ==
               /\ last' = answered("disableSecurityQuestions",
                                   [user |-> auth.user, req |-> req, given |-> token], res)
               /\ UNCHANGED <<sessions, questions, inflight>>
           proceed(auth, rows) ==
               /\ sessions' = rows
               /\ questions' = {q \in questions : q.user_id # auth.user.id}
               /\ inflight' = [inflight EXCEPT ![p] =
                     [step |-> "disableSecurityQuestions", user |-> auth.user,
                      req |-> req, given |-> token]]
               /\ UNCHANGED last
       IN admit(token, req, proceed, refuse)
    /\ UNCHANGED <<now, users, userRoles, settings, authenticator, backupCodes,
                   otps, attempts, tokens>>

(* get2FASettings, upsert2FASettings with security_question_enabled: false,
   and the response. *)
disableSecurityQuestions_finish(p) ==
    /\ inflight[p].step = "disableSecurityQuestions"
    /\ LET userId == inflight[p].user.id
           row == get2FASettings(userId)
       IN settings' = [settings EXCEPT ![userId] =
              IF row = NoRow THEN upsert2FASettings(FALSE, FALSE, FALSE, FALSE)
              ELSE upsert2FASettings(row.authenticator_enabled, row.passkey_enabled,
                                     row.one_time_code_enabled, FALSE)]
    /\ last' = answered("disableSecurityQuestions", inflight[p],
                        ResponseOkMessage("Security questions disabled successfully"))
    /\ inflight' = [inflight EXCEPT ![p] = Idle]
    /\ UNCHANGED <<now, users, userRoles, authenticator, questions, backupCodes,
                   otps, attempts, sessions, tokens>>

(* The secret of the owner's authenticator app. *)
OwnerSecret == "JBSWY3DPEHPK3PXP"

(* speakeasy.generateSecret draws one of these. *)
Secrets == {OwnerSecret, "KRSXG5DSMVZWK4TF"}

(* POST /2fa/authenticator/setup in its steps.  The first: the middleware,
   checkDeviceBlocked, generateSecret and the DELETE of saveAuthenticatorSecret. *)
setupAuthenticator_delete(p, token, req, secret) ==
    /\ inflight[p] = Idle
    /\ LET refuse(auth, res) ==
               /\ last' = answered("setupAuthenticator",
                                   [user |-> auth.user, req |-> req, given |-> token], res)
               /\ UNCHANGED <<sessions, authenticator, inflight>>
           proceed(auth, rows) ==
               /\ sessions' = rows
               /\ authenticator' = [authenticator EXCEPT ![auth.user.id] = <<>>]
               /\ inflight' = [inflight EXCEPT ![p] =
                     [step |-> "insertAuthenticatorSecret", user |-> auth.user,
                      secret |-> secret, req |-> req, given |-> token]]
               /\ UNCHANGED last
       IN admit(token, req, proceed, refuse)
    /\ UNCHANGED <<now, users, userRoles, settings, questions, backupCodes,
                   otps, attempts, tokens>>

(* The INSERT of saveAuthenticatorSecret, the QR code and the response. *)
saveAuthenticatorSecret_insert(p) ==
    /\ inflight[p].step = "insertAuthenticatorSecret"
    /\ LET r == inflight[p]
       IN /\ Len(authenticator[r.user.id]) < MaxSecrets
          /\ authenticator' = [authenticator EXCEPT ![r.user.id] =
                Append(@, [secret |-> r.secret, is_verified |-> FALSE, created_at |-> now])]
          /\ last' = answered("setupAuthenticator", r,
                ResponseOkMessage("Scan this QR code with your authenticator app (Google Authenticator, Authy, etc.)"))
    /\ inflight' = [inflight EXCEPT ![p] = Idle]
    /\ UNCHANGED <<now, users, userRoles, settings, questions, backupCodes,
                   otps, attempts, sessions, tokens>>

(* twoFactorModel.verifyAuthenticator: UPDATE ... SET is_verified = TRUE WHERE
   user_id = ? *)
verifyAuthenticator(userId) ==
    [authenticator EXCEPT ![userId] =
        [i \in 1..Len(@) |-> [@[i] EXCEPT !.is_verified = TRUE]]]

(* POST /2fa/authenticator/verify: verifyAuthenticatorSchema, then
   twoFactorService.verifyAndEnableAuthenticator.  Its window of three steps
   of 30 seconds admits the codes of the same minutes as the window of login. *)
verifyAndEnableAuthenticator(token, req, code) ==
    /\ LET done(auth, res) ==
               [answered("verifyAndEnableAuthenticator",
                         [user |-> auth.user, req |-> req, given |-> token], res)
                   EXCEPT !.proof = [method |-> "authenticator", code |-> code]]
           refuse(auth, res) ==
               /\ last' = done(auth, res)
               /\ UNCHANGED <<sessions, authenticator, settings, backupCodes>>
           proceed(auth, rows) ==
               /\ sessions' = rows
               /\ \E authData \in getAuthenticatorSecret(auth.user.id) :
                     LET userId == auth.user.id
                         row == get2FASettings(userId)
                         reject(message) ==
                             /\ last' = done(auth, ResponseError(message, 400))
                             /\ UNCHANGED <<authenticator, settings, backupCodes>>
                     IN IF code.kind # "totp" THEN reject("Validation error")
                        ELSE IF authData = NoRow
                        THEN reject("Authenticator not set up. Please set up first.")
                        ELSE IF ~totpVerify(authData.secret, code)
                        THEN reject("Invalid authenticator code. Please check the code and try again. Make sure your device clock is synchronized.")
                        ELSE /\ authenticator' = verifyAuthenticator(userId)
                             /\ settings' = [settings EXCEPT ![userId] =
                                   IF row = NoRow
                                   THEN upsert2FASettings(TRUE, FALSE, FALSE, FALSE)
                                   ELSE upsert2FASettings(TRUE, row.passkey_enabled,
                                                          row.one_time_code_enabled,
                                                          row.security_question_enabled)]
                             /\ backupCodes' = saveBackupCodes(userId, GeneratedCodes)
                             /\ last' = done(auth,
                                   ResponseOkMessage("Authenticator enabled successfully"))
       IN admit(token, req, proceed, refuse)
    /\ UNCHANGED <<now, users, userRoles, questions, otps, attempts, tokens, inflight>>

(* POST /2fa/authenticator/disable: deleteAuthenticator, then the settings. *)
disableAuthenticator(token, req) ==
    /\ LET refuse(auth, res) ==
               /\ last' = answered("disableAuthenticator",
                                   [user |-> auth.user, req |-> req, given |-> token], res)
               /\ UNCHANGED <<sessions, authenticator, settings>>
           proceed(auth, rows) ==
               LET userId == auth.user.id
                   row == get2FASettings(userId)
               IN /\ sessions' = rows
                  /\ authenticator' = [authenticator EXCEPT ![userId] = <<>>]
                  /\ settings' = [settings EXCEPT ![userId] =
                        IF row = NoRow THEN upsert2FASettings(FALSE, FALSE, FALSE, FALSE)
                        ELSE upsert2FASettings(FALSE, row.passkey_enabled,
                                               row.one_time_code_enabled,
                                               row.security_question_enabled)]
                  /\ last' = answered("disableAuthenticator",
                                      [user |-> auth.user, req |-> req, given |-> token],
                                      ResponseOkMessage("Authenticator disabled successfully"))
       IN admit(token, req, proceed, refuse)
    /\ UNCHANGED <<now, users, userRoles, questions, backupCodes, otps, attempts,
                   tokens, inflight>>

(* The server process dies while a request is in flight: nothing more of the
   request is run. *)
crash(p) ==
    /\ inflight[p] # Idle
    /\ inflight' = [inflight EXCEPT ![p] = Idle]
    /\ UNCHANGED <<now, users, userRoles, settings, authenticator, questions,
                   backupCodes, otps, attempts, sessions, tokens, last>>

-----------------------------------------------------------------------------
(* The environment *)

(* Time passes. *)
Tick ==
    /\ now + TickMinutes <= MaxTicks * TickMinutes
    /\ now' = now + TickMinutes
    /\ UNCHANGED <<users, userRoles, settings, authenticator, questions,
                   backupCodes, otps, attempts, sessions, tokens, inflight, last>>

(* A client drops a token it holds. *)
forgetToken(token) ==
    /\ token \in tokens
    /\ tokens' = tokens \ {token}
    /\ UNCHANGED <<now, users, userRoles, settings, authenticator, questions,
                   backupCodes, otps, attempts, sessions, inflight, last>>

-----------------------------------------------------------------------------
(* The data every scenario starts from: the business b1, its owner (a
   super_admin who may also act as admin) and one admin of the business. *)

userRow(id, role) ==
    [id |-> id, email |-> <<id, "@psfss">>, password |-> bcryptHash(<<"password of", id>>),
     role |-> role, is_deleted |-> FALSE, is_active |-> TRUE,
     account_name |-> "business", business_id |-> "b1", last_login |-> -1]

InitUsers ==
    [u \in {"owner", "staff"} |->
        IF u = "owner" THEN userRow(u, ROLES.SUPER_ADMIN) ELSE userRow(u, ROLES.ADMIN)]

InitUserRoles ==
    [u \in {"owner", "staff"} |->
        IF u = "owner" THEN {ROLES.SUPER_ADMIN, ROLES.ADMIN} ELSE {ROLES.ADMIN}]

Emails == {<<"owner", "@psfss">>, <<"staff", "@psfss">>, <<"nobody", "@psfss">>}

Passwords == {<<"password of", "owner">>, <<"password of", "staff">>}

(* The devices requests come from.  The first two are one device, seen with
   and without the IPv4-mapped prefix; each of the others differs from it in
   one component of the fingerprint. *)
Device == [ip |-> "10.0.0.1", userAgent |-> "Chrome/Linux"]

DeviceMapped == [ip |-> "::ffff:10.0.0.1", userAgent |-> "Chrome/Linux"]

OtherIp == [ip |-> "10.0.0.2", userAgent |-> "Chrome/Linux"]

OtherBrowser == [ip |-> "10.0.0.1", userAgent |-> "Firefox/Linux"]

OtherOs == [ip |-> "10.0.0.1", userAgent |-> "Chrome/Mac OS"]

(* The factors a user has set up before the scenario starts. *)

(* twoFactorModel.saveAuthenticatorSecret, verifyAuthenticator: the row *)
authenticatorRow(secret, is_verified) ==
    [secret |-> secret, is_verified |-> is_verified, created_at |-> 0]

(* The table user_authenticator with these rows of the owner. *)
ownerSecrets(rows) == [u \in {"owner", "staff"} |-> IF u = "owner" THEN rows ELSE <<>>]

OwnerQuestions ==
    saveSecurityQuestions("owner",
        <<[question |-> "First pet?", answer |-> <<"A", " ">>],
          [question |-> "Birth city?", answer |-> <<" ", "b">>],
          [question |-> "First school?", answer |-> <<"c", " ">>]>>)

(* The backup codes a user holds from the start: the table after
   saveBackupCodes on the empty table. *)
initialBackupCodes(userId, codes) ==
    {[id |-> i, user_id |-> userId, code_hash |-> bcryptHash(codes[i]),
      is_used |-> FALSE] : i \in 1..Len(codes)}


AllFactors == upsert2FASettings(TRUE, FALSE, TRUE, TRUE)

OnlyOneTimeCode == upsert2FASettings(FALSE, FALSE, TRUE, FALSE)

(* Before the first call of a scenario; the logins refused for a wrong
   password before the scenario are not counted. *)
NoCall ==
    [op |-> "", endpoint |-> "", user |-> "", device |-> extractDeviceInfo(Device),
     given |-> NoToken, proof |-> NoProof, lookupFails |-> FALSE,
     insertFails |-> FALSE, wrongPasswords |-> MaxWrongPasswords,
     res |-> ResponseOkMessage("")]

InitBase ==
    /\ now = 0
    /\ users = InitUsers
    /\ userRoles = InitUserRoles
    /\ otps = {}
    /\ attempts = <<>>
    /\ sessions = {}
    /\ tokens = {}
    /\ last = NoCall

-----------------------------------------------------------------------------
(* Token purposes: the owner logs in, with the one-time code enabled or with
   no settings row, and presents the tokens received to every endpoint. *)

Init ==
    /\ InitBase
    /\ settings \in {[u \in {"owner", "staff"} |-> IF u = "owner" THEN row ELSE NoRow] :
                        row \in {NoRow, OnlyOneTimeCode}}
    /\ authenticator = [u \in {"owner", "staff"} |-> <<>>]
    /\ questions = {}
    /\ backupCodes = IF settings["owner"] = NoRow THEN {}
                     ELSE initialBackupCodes("owner", GeneratedCodes)
    /\ inflight = [p \in {1} |-> Idle]

(* The tokens a client can present: those issued, a forged one, none. *)
Presented == tokens \cup {ForgedToken, NoToken}

SentCode == "482913"

Next ==
    \/ \E email \in {<<"owner", "@psfss">>, <<"nobody", "@psfss">>}, password \in Passwords :
          login(email, password, Device, FALSE, FALSE)
    \/ \E selectedRole \in SUPER_ADMIN_SELECTABLE_ROLES, tempToken \in Presented :
          selectRole(selectedRole, tempToken, Device, FALSE, FALSE)
    \/ \E tempToken \in Presented : send2FACode(tempToken, SentCode, Device)
    \/ \E tempToken \in Presented :
          verify2FAAndLogin(1, tempToken, "one_time_code", typed("otp", SentCode), <<>>,
                            Device, FewAttempts)
    \/ verifyOneTimeCode(1)
    \/ verifyOneTimeCode_markUsed(1)
    \/ verify2FAAndLogin_finish(1, FALSE, FALSE)
    \/ \E mw \in Middlewares, token \in Presented :
          request(mw, "protected", token, Device, "", FALSE)
    \/ \E token \in tokens : forgetToken(token)

Spec == Init /\ [][Next]_vars

(* The last call presented a token this server signed that has not expired. *)
GivenValidToken == last.given # NoToken /\ jwtVerify(last.given) = "ok"

(* C3: each of the middlewares authenticate, authenticateSuperAdmin and
   authenticateBusinessAdmin rejects a validly signed, unexpired token that is
   marked temp (role selection) or temp2FA (second factor pending). *)
C3_IntermediateTokensRejected ==
    (/\ last.op \in Middlewares
     /\ GivenValidToken
     /\ (last.given.temp \/ last.given.temp2FA))
    => last.res.error

(* The call completed in this step was given a token of the wrong purpose. *)
WrongPurpose ==
    /\ last' # last
    /\ last'.op \in {"verify2FAAndLogin", "send2FACode", "selectRole"}
    /\ last'.given # NoToken
    /\ last'.given.sig = "jwtSecret"
    /\ IF last'.op = "selectRole" THEN ~last'.given.temp ELSE ~last'.given.temp2FA

(* C4: verify2FAAndLogin and send2FACode reject a role-selection token and a
   session token, selectRole rejects a second-factor-pending token and a
   session token; the call is answered 401, no verifier is started, no
   attempt row or one-time code is written and no token or session is issued. *)
C4_TokenPurposes ==
    [][WrongPurpose =>
          /\ last'.res.error
          /\ last'.res.status = 401
          /\ UNCHANGED <<attempts, otps, inflight, tokens, sessions, backupCodes>>]_vars

(* A role-selection token was presented to verify2FAAndLogin and refused. *)
C4_Witness ==
    /\ last.op = "verify2FAAndLogin"
    /\ GivenValidToken
    /\ last.given.temp
    /\ ~last.given.temp2FA
    /\ last.res.status = 401

-----------------------------------------------------------------------------
(* Login against the settings: the users start without a settings row, and
   enable and disable the one-time code from a session. *)

InitLogin ==
    /\ InitBase
    /\ settings = [u \in {"owner", "staff"} |-> NoRow]
    /\ authenticator = [u \in {"owner", "staff"} |-> <<>>]
    /\ questions = {}
    /\ backupCodes = {}
    /\ inflight = [p \in {1} |-> Idle]

NextLogin ==
    \/ \E email \in Emails, password \in Passwords :
          login(email, password, Device, FALSE, FALSE)
    \/ \E token \in tokens :
          request("authenticateBusinessAdmin", "enableOneTimeCode", token, Device,
                  GeneratedCodes, FALSE)
    \/ \E token \in tokens :
          request("authenticateBusinessAdmin", "disableOneTimeCode", token, Device, "", FALSE)
    \/ \E selectedRole \in SUPER_ADMIN_SELECTABLE_ROLES, tempToken \in tokens :
          selectRole(selectedRole, tempToken, Device, FALSE, FALSE)
    \/ \E token \in tokens :
          request("authenticateBusinessAdmin", "removeBusinessUser", token, Device,
                  "staff", FALSE)
    \/ \E token \in tokens : forgetToken(token)

SpecLogin == InitLogin /\ [][NextLogin]_vars

(* The user the login completed in this step is for has no settings row, or
   a row with is_2fa_enabled false. *)
LoginWithout2FA ==
    /\ last' # last
    /\ last'.op = "login"
    /\ last'.user # ""
    /\ \/ settings[last'.user] = NoRow
       \/ ~settings[last'.user].is_2fa_enabled

(* C5: a login of a user whose settings row is absent or has is_2fa_enabled
   false never answers require2FA and never issues a temp2FA token. *)
C5_No2FAWhenDisabled ==
    [][LoginWithout2FA =>
          /\ ~last'.res.body.require2FA
          /\ \A t \in issuedBy(last'.res) \cup (tokens' \ tokens) : ~t.temp2FA]_vars

(* A user who disabled the one-time code has logged in and holds a token
   that is not second-factor pending. *)
C5_Witness ==
    /\ last.op = "login"
    /\ last.user # ""
    /\ settings[last.user] # NoRow
    /\ ~settings[last.user].is_2fa_enabled
    /\ ~last.res.error
    /\ ~last.res.body.require2FA
    /\ issuedBy(last.res) # {}

-----------------------------------------------------------------------------
(* Blocked devices: the admin logs in from several devices and blocks and
   unblocks sessions; once a device is blocked, the owner can log in and remove
   the admin's account. *)

InitDevices == InitLogin

DeviceRequests == {Device, DeviceMapped, OtherIp, OtherBrowser, OtherOs}

NextDevices ==
    \/ \E req \in DeviceRequests, lookupFails \in BOOLEAN :
          login(<<"staff", "@psfss">>, <<"password of", "staff">>, req, lookupFails, FALSE)
    \/ /\ \E session \in sessions : session.is_blocked
       /\ \E email \in Emails :
             login(email, <<"password of", "owner">>, OtherIp, FALSE, FALSE)
    \/ \E tempToken \in tokens : selectRole(ROLES.SUPER_ADMIN, tempToken, OtherIp, FALSE, FALSE)
    \/ \E token \in tokens, req \in {Device, OtherIp}, session \in sessions :
          request("authenticateBusinessAdmin", "blockDevice", token, req, session.id, FALSE)
    \/ \E token \in tokens, session \in sessions :
          request("authenticateBusinessAdmin", "unblockDevice", token, OtherIp, session.id,
                  FALSE)
    \/ \E token \in tokens :
          request("authenticateBusinessAdmin", "removeBusinessUser", token, OtherIp,
                  "staff", FALSE)
    \/ \E token \in tokens : forgetToken(token)

SpecDevices == InitDevices /\ [][NextDevices]_vars

(* Some blocked session of the user has exactly this fingerprint. *)
BlockedAt(userId, device) ==
    \E s \in sessions :
        /\ s.user_id = userId
        /\ s.is_blocked
        /\ s.ip_address = device.ipAddress
        /\ s.browser = device.browser
        /\ s.os = device.os

(* Some blocked session of the user has a fingerprint that differs from this
   one in a component. *)
BlockedElsewhere(userId, device) ==
    \E s \in sessions :
        /\ s.user_id = userId
        /\ s.is_blocked
        /\ \/ s.ip_address # device.ipAddress
           \/ s.browser # device.browser
           \/ s.os # device.os

(* The call completed in this step is a login with the password of its user. *)
LoginWithCredentials ==
    /\ last' # last
    /\ last'.op = "login"
    /\ last'.user # ""
    /\ bcryptCompare(last'.given.password, users[last'.user].password)

RefusedAsBlocked ==
    /\ last'.res.status = 403
    /\ last'.res.message = DeviceBlockedMessage
    /\ issuedBy(last'.res) = {}
    /\ UNCHANGED <<tokens, sessions>>

(* C10 as stated: while a session of the user with fingerprint F is blocked,
   every login with correct credentials from F is refused as DeviceBlocked and
   issues no token, and a login from a fingerprint that differs from F in a
   component succeeds. *)
C10_BlockedFingerprint ==
    [][LoginWithCredentials =>
          /\ BlockedAt(last'.user, last'.device) => RefusedAsBlocked
          /\ BlockedElsewhere(last'.user, last'.device) => ~last'.res.error]_vars

(* C10 amended: for a user who is not deleted, a login with correct
   credentials from the fingerprint of a blocked session of the user is refused
   as DeviceBlocked and issues no token and no session, unless the lookup of
   the device sessions fails; a login from a fingerprint of no blocked session
   of the user succeeds. *)
C10_BlockedFingerprintAmended ==
    [][(LoginWithCredentials /\ ~users[last'.user].is_deleted) =>
          IF BlockedAt(last'.user, last'.device)
          THEN last'.lookupFails \/ RefusedAsBlocked
          ELSE ~last'.res.error /\ issuedBy(last'.res) # {}]_vars

(* A login from the fingerprint of a blocked session has been refused while
   another session of the user is not blocked. *)
C10_Witness ==
    /\ last.op = "login"
    /\ last.res.status = 403
    /\ last.res.message = DeviceBlockedMessage
    /\ BlockedAt(last.user, last.device)
    /\ \E s \in sessions : s.user_id = last.user /\ ~s.is_blocked

-----------------------------------------------------------------------------
(* The factor verifiers: the owner, with the one-time code enabled, with or
   without a verified authenticator and with or without security questions,
   logs in and submits proofs of every method. *)

ownerOnly(row) == [u \in {"owner", "staff"} |-> IF u = "owner" THEN row ELSE NoRow]

InitFactors ==
    /\ InitBase
    /\ authenticator \in {ownerSecrets(a) : a \in {<<>>, <<authenticatorRow(OwnerSecret, FALSE)>>,
                                                     <<authenticatorRow(OwnerSecret, TRUE)>>}}
    /\ questions \in {{}, OwnerQuestions}
    /\ settings = ownerOnly(upsert2FASettings(
                       authenticator["owner"] # <<>> /\ authenticator["owner"][1].is_verified,
                       FALSE, TRUE, questions # {}))
    /\ backupCodes = initialBackupCodes("owner", GeneratedCodes)
    /\ inflight = [p \in {1} |-> Idle]

answerTo(id, text) == [id |-> id, answer |-> text]

(* Proofs of each method: right ones, wrong ones and missing ones. *)
FactorProofs ==
    {[method |-> "authenticator", code |-> c, answers |-> <<>>] :
        c \in {totp(OwnerSecret, now), typed("totp", "000000"), NoCode}}
    \cup {[method |-> "one_time_code", code |-> c, answers |-> <<>>] :
        c \in {typed("otp", SentCode), typed("otp", "000000")}}
    \cup {[method |-> "security_question", code |-> NoCode, answers |-> a] :
        a \in {<<>>, <<answerTo(1, <<"a">>)>>, <<answerTo(1, <<"x">>)>>}}
    \cup {[method |-> "backup_code", code |-> c, answers |-> <<>>] :
        c \in {typed("backup", GeneratedCodes[1]), typed("backup", "00000000"), NoCode}}

NextFactors ==
    \/ login(<<"owner", "@psfss">>, <<"password of", "owner">>, Device, FALSE, FALSE)
    \/ \E tempToken \in tokens : send2FACode(tempToken, SentCode, Device)
    \/ \E tempToken \in tokens, proof \in FactorProofs :
          verify2FAAndLogin(1, tempToken, proof.method, proof.code, proof.answers,
                            Device, FewAttempts)
    \/ verifyAuthenticatorCode(1)
    \/ verifyOneTimeCode(1)
    \/ verifyOneTimeCode_markUsed(1)
    \/ verifySecurityQuestionsCode(1)
    \/ verifyBackupCode(1)
    \/ verifyBackupCode_use(1)
    \/ verify2FAAndLogin_finish(1, FALSE, FALSE)

SpecFactors == InitFactors /\ [][NextFactors]_vars

(* This step appends exactly one row, of the request in slot p. *)
LogsOneRow(p) ==
    /\ Len(attempts') = Len(attempts) + 1
    /\ SubSeq(attempts', 1, Len(attempts)) = attempts
    /\ attempts'[Len(attempts')].user_id = inflight[p].user.id

(* C6: every invocation of a factor verifier appends exactly one attempt row,
   whatever the outcome: the step in which a verifier returns, or goes on to
   mark the one-time code used, appends one row, and the steps before and after
   it append none. *)
C6_OneRowPerVerification ==
    [][\A p \in Slots :
          /\ (/\ inflight[p].step \in {"authenticator", "one_time_code",
                                        "security_question", "backup_code", "useBackupCode"}
              /\ inflight'[p].step \in {"verified", "markOtpUsed"})
             => LogsOneRow(p)
          /\ (/\ inflight[p].step # inflight'[p].step
              /\ \/ inflight[p].step \in {"idle", "markOtpUsed", "verified"}
                 \/ inflight'[p].step = "useBackupCode")
             => attempts' = attempts]_vars

-----------------------------------------------------------------------------
(* Security questions: the owner, with three questions stored, submits every
   list of up to MaxAnswers answers. *)

InitAnswers ==
    /\ InitBase
    /\ authenticator = ownerSecrets(<<>>)
    /\ questions = OwnerQuestions
    /\ settings = ownerOnly(upsert2FASettings(FALSE, FALSE, FALSE, TRUE))
    /\ backupCodes = initialBackupCodes("owner", GeneratedCodes)
    /\ inflight = [p \in {1} |-> Idle]

(* The stored answers are "a", "b" and "c"; question 9 does not exist. *)
AnswerTexts == {<<" ", "A">>, <<"b">>, <<"C", " ">>}

SubmittedAnswers == {answerTo(id, text) : id \in {1, 2, 3, 9}, text \in AnswerTexts}

Submissions == UNION {[1..n -> SubmittedAnswers] : n \in 0..MaxAnswers}

NextAnswers ==
    \/ login(<<"owner", "@psfss">>, <<"password of", "owner">>, Device, FALSE, FALSE)
    \/ /\ inflight[1] = Idle
       /\ \E tempToken \in tokens, answers \in Submissions :
             verify2FAAndLogin(1, tempToken, "security_question", NoCode, answers,
                               Device, FewAttempts)
    \/ verifySecurityQuestionsCode(1)
    \/ verify2FAAndLogin_finish(1, FALSE, FALSE)

SpecAnswers == InitAnswers /\ [][NextAnswers]_vars

(* The submitted answer names a question of the user and is its stored
   answer, letter case and surrounding spaces aside. *)
Matches(userId, answer) ==
    \E q \in questions :
        /\ q.user_id = userId
        /\ q.id = answer.id
        /\ q.answer_hash = bcryptHash(normalizeAnswer(answer.answer))

SomeMatch(r) == \E i \in 1..Len(r.answers) : Matches(r.user.id, r.answers[i])

AllMatch(r) == \A i \in 1..Len(r.answers) : Matches(r.user.id, r.answers[i])

(* C8: security-question verification succeeds if and only if at least one
   of the submitted answers matches the stored hash of its question; answers
   to unknown questions and wrong answers beside it do not matter. *)
C8_AnyOneAnswer ==
    \A p \in Slots :
        inflight[p].step = "verified" => (inflight[p].isValid <=> SomeMatch(inflight[p]))

(* A submission with a wrong answer, an answer to an unknown question and
   one right answer has been verified. *)
C8_Witness ==
    \E p \in Slots :
        /\ inflight[p].step = "verified"
        /\ inflight[p].isValid
        /\ \E i, j, k \in 1..Len(inflight[p].answers) :
              /\ Matches("owner", inflight[p].answers[i])
              /\ inflight[p].answers[j].id = 9
              /\ inflight[p].answers[k].id \in {1, 2, 3}
              /\ ~Matches("owner", inflight[p].answers[k])

(* The last row of the ledger records a failure. *)
LoggedFailure == attempts # <<>> /\ ~attempts[Len(attempts)].success

(* C9 as stated: all submitted answers must be correct; a submission with a
   wrong answer beside right ones is rejected as an invalid verification and
   logged as a failed attempt. *)
C9_AllAnswersRequired ==
    \A p \in Slots :
        (inflight[p].step = "verified" /\ ~AllMatch(inflight[p]))
        => (~inflight[p].isValid /\ LoggedFailure)

(* C9 amended: a submission with a wrong answer is rejected and logged as a
   failed attempt only when none of its answers is right; with a wrong answer
   to question 1 and right answers to questions 2 and 3 it is accepted and
   logged as a success. *)
C9_WrongAnswerBesideRightOnes ==
    \A p \in Slots :
        (inflight[p].step = "verified" /\ ~AllMatch(inflight[p]))
        => IF SomeMatch(inflight[p])
           THEN inflight[p].isValid /\ ~LoggedFailure
           ELSE ~inflight[p].isValid /\ LoggedFailure

(* Test 8 of the documentation: a wrong answer to question 1, the right
   answers to questions 2 and 3. *)
C9_Witness ==
    \E p \in Slots :
        /\ inflight[p].step = "verified"
        /\ Len(inflight[p].answers) = 3
        /\ inflight[p].answers[1].id = 1
        /\ ~Matches("owner", inflight[p].answers[1])
        /\ inflight[p].answers[2].id = 2
        /\ Matches("owner", inflight[p].answers[2])
        /\ inflight[p].answers[3].id = 3
        /\ Matches("owner", inflight[p].answers[3])
        /\ inflight[p].isValid

-----------------------------------------------------------------------------
(* Lockout: the owner, with every factor set up, logs in again and again and
   submits wrong and right proofs while time passes. *)

InitLockout ==
    /\ InitBase
    /\ authenticator = ownerSecrets(<<authenticatorRow(OwnerSecret, TRUE)>>)
    /\ questions = OwnerQuestions
    /\ settings = ownerOnly(AllFactors)
    /\ backupCodes = initialBackupCodes("owner", GeneratedCodes)
    /\ inflight = [p \in {1} |-> Idle]

(* Wrong guesses, of two methods *)
Guesses ==
    {[method |-> "authenticator", code |-> typed("totp", "000000"), answers |-> <<>>],
     [method |-> "backup_code", code |-> typed("backup", "00000000"), answers |-> <<>>]}

(* The proofs of the owner, one of each method: the code the authenticator
   shows, an unused backup code, a right answer, and a one-time code that was
   never sent. *)
OwnerProofs ==
    {[method |-> "authenticator", code |-> totp(OwnerSecret, now), answers |-> <<>>],
     [method |-> "backup_code", code |-> typed("backup", GeneratedCodes[1]),
      answers |-> <<>>],
     [method |-> "security_question", code |-> NoCode,
      answers |-> <<answerTo(1, <<"a">>)>>],
     [method |-> "one_time_code", code |-> typed("otp", "000000"), answers |-> <<>>]}

(* The client logs in when it holds no token that is still valid, and drops
   the tokens that have expired; the owner's proofs arrive once the ledger
   holds LockoutThreshold rows. *)
NextLockout ==
    \/ /\ \A token \in tokens : jwtVerify(token) # "ok"
       /\ login(<<"owner", "@psfss">>, <<"password of", "owner">>, Device, FALSE, FALSE)
    \/ \E tempToken \in tokens, proof \in Guesses :
          verify2FAAndLogin(1, tempToken, proof.method, proof.code, proof.answers,
                            Device, MaxAttempts)
    \/ /\ Len(attempts) >= LockoutThreshold
       /\ \E tempToken \in tokens, proof \in OwnerProofs :
             verify2FAAndLogin(1, tempToken, proof.method, proof.code, proof.answers,
                               Device, MaxAttempts)
    \/ verifyAuthenticatorCode(1)
    \/ verifyOneTimeCode(1)
    \/ verifySecurityQuestionsCode(1)
    \/ verifyBackupCode(1)
    \/ verifyBackupCode_use(1)
    \/ verify2FAAndLogin_finish(1, FALSE, FALSE)
    \/ Tick
    \/ \E token \in tokens : jwtVerify(token) # "ok" /\ forgetToken(token)

SpecLockout == InitLockout /\ [][NextLockout]_vars

(* The failed attempts of the user less than LockoutWindowMinutes old. *)
RecentFailures(userId) ==
    Cardinality({i \in 1..Len(attempts) :
        /\ attempts[i].user_id = userId
        /\ ~attempts[i].success
        /\ now - attempts[i].created_at < LockoutWindowMinutes})

LockedOut(userId) == RecentFailures(userId) >= LockoutThreshold

(* A verify-2fa call is answered in this step; it came with a valid
   second-factor-pending token of a user who exists. *)
VerifyAnswered ==
    /\ last' # last
    /\ last'.op = "verify2FAAndLogin"
    /\ last'.given # NoToken
    /\ jwtVerify(last'.given) = "ok"
    /\ last'.given.temp2FA
    /\ last'.user \in UserIds
    /\ ~users[last'.user].is_deleted

TooManyAttempts ==
    /\ last'.res.status = 429
    /\ last'.res.message = "Too many failed attempts. Please try again in 30 minutes."

(* C1: while 5 or more failed attempts of a user, of whatever methods, are
   less than 30 minutes old, no verify-2fa call for the user is handed to a
   verifier: it is answered TooManyAttempts and no attempt row is written; a
   call is answered TooManyAttempts only then, so that verification resumes
   once fewer than 5 failures lie within the 30 minutes. *)
C1_Lockout ==
    [][/\ \A p \in Slots :
             (inflight[p] = Idle /\ inflight'[p] # Idle)
             => ~LockedOut(inflight'[p].user.id)
       /\ (VerifyAnswered /\ LockedOut(last'.user) /\ inflight' = inflight)
          => TooManyAttempts
       /\ (last' # last /\ last'.res.status = 429)
          => /\ LockedOut(last'.user)
             /\ UNCHANGED <<attempts, inflight, backupCodes, otps, tokens, sessions>>]_vars

(* The owner's right answer to a security question has been refused while
   five failures of two methods are in the window. *)
C1_Witness ==
    /\ last.op = "verify2FAAndLogin"
    /\ last.res.status = 429
    /\ last.proof.method = "security_question"
    /\ LockedOut("owner")
    /\ \E i, j \in 1..Len(attempts) :
          /\ attempts[i].method = "authenticator"
          /\ attempts[j].method = "backup_code"
          /\ ~attempts[i].success
          /\ ~attempts[j].success

(* The code is an unused backup code of the user. *)
UnusedBackupCode(userId, code) ==
    \E c \in backupCodes :
        /\ c.user_id = userId
        /\ ~c.is_used
        /\ c.code_hash = bcryptHash(code.val)

(* A locked-out user submits a valid unused backup code in this step. *)
BackupCodeWhileLockedOut ==
    /\ VerifyAnswered
    /\ last'.proof.method = "backup_code"
    /\ UnusedBackupCode(last'.user, last'.proof.code)
    /\ LockedOut(last'.user)

(* C7 as stated: a user who is locked out after 5 failed attempts can still
   complete verification with a valid unused backup code. *)
C7_BackupCodeBypassesLockout ==
    [][BackupCodeWhileLockedOut => ~last'.res.error]_vars

(* C7 amended: a valid unused backup code does not help a locked-out user:
   the call is answered TooManyAttempts, the code stays unused and no attempt
   row is written; the backup-code verifier is never started for a user who
   is locked out. *)
C7_BackupCodeIsLockedOutToo ==
    [][/\ BackupCodeWhileLockedOut =>
             /\ TooManyAttempts
             /\ UNCHANGED <<backupCodes, attempts, inflight, tokens, sessions>>
       /\ \A p \in Slots :
             (/\ inflight[p] = Idle
              /\ inflight'[p] # Idle
              /\ inflight'[p].method = "backup_code")
             => ~LockedOut(inflight'[p].user.id)]_vars

(* A valid backup code has been refused with TooManyAttempts and is unused. *)
C7_Witness ==
    /\ last.op = "verify2FAAndLogin"
    /\ last.res.status = 429
    /\ last.proof.method = "backup_code"
    /\ last.user \in UserIds
    /\ UnusedBackupCode(last.user, last.proof.code)

-----------------------------------------------------------------------------
(* Concurrent redemption: two verify-2fa requests of the owner are served at
   the same time, each submitting a backup code. *)

InitRace ==
    /\ InitBase
    /\ authenticator = ownerSecrets(<<authenticatorRow(OwnerSecret, TRUE)>>)
    /\ questions = OwnerQuestions
    /\ settings = ownerOnly(AllFactors)
    /\ backupCodes = initialBackupCodes("owner", GeneratedCodes)
    /\ inflight = [p \in {1, 2} |-> Idle]

SubmittedCodes ==
    {typed("backup", GeneratedCodes[1]), typed("backup", GeneratedCodes[2]),
     typed("backup", "00000000")}

NextRace ==
    \/ login(<<"owner", "@psfss">>, <<"password of", "owner">>, Device, FALSE, FALSE)
    \/ \E p \in Slots, tempToken \in tokens, code \in SubmittedCodes :
          verify2FAAndLogin(p, tempToken, "backup_code", code, <<>>, Device, MaxAttempts)
    \/ \E p \in Slots : verifyBackupCode(p)
    \/ \E p \in Slots : verifyBackupCode_use(p)
    \/ \E p \in Slots : verify2FAAndLogin_finish(p, FALSE, FALSE)

SpecRace == InitRace /\ [][NextRace]_vars

(* C2: a backup code is redeemed at most once, also when two requests submit
   it at the same time: the ledger never holds more successful backup_code
   attempts of a user than the user has codes marked used, and two requests
   that submitted the same code are never both verified. *)
C2_BackupCodeOnce ==
    /\ \A u \in UserIds :
          Cardinality({i \in 1..Len(attempts) :
              /\ attempts[i].user_id = u
              /\ attempts[i].method = "backup_code"
              /\ attempts[i].success})
          <= Cardinality({c \in backupCodes : c.user_id = u /\ c.is_used})
    /\ \A p, q \in Slots :
          (/\ p # q
           /\ inflight[p].step = "verified"
           /\ inflight[q].step = "verified"
           /\ inflight[p].user.id = inflight[q].user.id
           /\ inflight[p].code = inflight[q].code)
          => ~(inflight[p].isValid /\ inflight[q].isValid)

-----------------------------------------------------------------------------
(* Self-service device management: the admin logs in from several devices and
   blocks, unblocks and revokes sessions from them. *)

InitSelfService == InitLogin

SelfServiceRequests == {Device, DeviceMapped, OtherIp, OtherBrowser}

SessionIds == 1..(MaxSessions + 1)

NextSelfService ==
    \/ \E req \in SelfServiceRequests :
          login(<<"staff", "@psfss">>, <<"password of", "staff">>, req, FALSE, FALSE)
    \/ \E token \in tokens, req \in SelfServiceRequests, sessionId \in SessionIds,
          lookupFails \in BOOLEAN :
          request("authenticateBusinessAdmin", "blockDevice", token, req, sessionId,
                  lookupFails)
    \/ \E token \in tokens, session \in sessions :
          request("authenticateBusinessAdmin", "unblockDevice", token, OtherIp, session.id,
                  FALSE)
    \/ \E token \in tokens, req \in SelfServiceRequests, sessionId \in SessionIds,
          lookupFails \in BOOLEAN :
          request("authenticateBusinessAdmin", "revokeDevice", token, req, sessionId,
                  lookupFails)
    \/ \E token \in tokens, req \in SelfServiceRequests, lookupFails \in BOOLEAN :
          request("authenticateBusinessAdmin", "revokeAllOtherDevices", token, req, "",
                  lookupFails)
    \/ \E token \in tokens : forgetToken(token)

SpecSelfService == InitSelfService /\ [][NextSelfService]_vars

(* The fingerprint of a request and of a session row: ip, browser, os. *)
FingerprintOfRequest(req) ==
    <<extractDeviceInfo(req).ipAddress, extractDeviceInfo(req).browser,
      extractDeviceInfo(req).os>>

FingerprintOfSession(s) == <<s.ip_address, s.browser, s.os>>

(* Every session with the fingerprint of the request is there after the step
   as it was before, blocked or not. *)
SessionsOfFingerprintKept(req) ==
    \A s \in sessions :
        FingerprintOfSession(s) = FingerprintOfRequest(req)
        => \E u \in sessions' : u.id = s.id /\ u.is_blocked = s.is_blocked

(* The call reaches the service: the token is a session token of a user who
   is not deleted, and the device check lets the request pass. *)
ReachesService(token, req, lookupFails) ==
    /\ jwtVerify(token) = "ok"
    /\ ~token.temp
    /\ ~token.temp2FA
    /\ ~users[token.id].is_deleted
    /\ \/ lookupFails
       \/ \A s \in sessions :
             (s.user_id = token.id /\ FingerprintOfSession(s) = FingerprintOfRequest(req))
             => ~s.is_blocked

(* The session the call names is a session of the caller with the fingerprint
   of the calling request. *)
TargetsCurrentDevice(token, req, sessionId) ==
    \E s \in sessions :
        /\ s.id = sessionId
        /\ s.user_id = token.id
        /\ FingerprintOfSession(s) = FingerprintOfRequest(req)

CannotActOnCurrentDevice ==
    /\ last'.res.error
    /\ last'.res.status = 400
    /\ last'.res.message \in {"Cannot block your current device",
                              "Cannot revoke your current device session"}

(* C11: a call of blockDevice, revokeDevice or revokeAllOtherDevices from a
   request with fingerprint F leaves every session with fingerprint F in the
   table and as blocked or unblocked as it was; blockDevice and revokeDevice
   answer CannotActOnCurrentDevice (400) when the session named is a session
   of the caller with fingerprint F, whatever its id. *)
C11_NoSelfLockout ==
    [][\A token \in tokens, req \in SelfServiceRequests, lookupFails \in BOOLEAN :
          (/\ last'.given = token
           /\ last'.device = extractDeviceInfo(req)
           /\ last'.lookupFails = lookupFails)
          => /\ \A endpoint \in {"blockDevice", "revokeDevice"}, sessionId \in SessionIds :
                   (/\ last'.endpoint = endpoint
                    /\ request("authenticateBusinessAdmin", endpoint, token, req,
                               sessionId, lookupFails))
                   => /\ SessionsOfFingerprintKept(req)
                      /\ (ReachesService(token, req, lookupFails)
                          /\ TargetsCurrentDevice(token, req, sessionId))
                         => CannotActOnCurrentDevice
             /\ (/\ last'.endpoint = "revokeAllOtherDevices"
                 /\ request("authenticateBusinessAdmin", "revokeAllOtherDevices", token,
                            req, "", lookupFails))
                => SessionsOfFingerprintKept(req)]_vars

(* A call from the IPv4-mapped form of the address of a session has been
   refused, and the session, which is not the one the caller last logged in
   with, is still there and not blocked. *)
C11_Witness ==
    /\ last.op = "authenticateBusinessAdmin"
    /\ last.endpoint \in {"blockDevice", "revokeDevice"}
    /\ last.res.status = 400
    /\ last.device = extractDeviceInfo(DeviceMapped)
    /\ Cardinality({s \in sessions : /\ s.user_id = "staff"
                                     /\ ~s.is_blocked
                                     /\ FingerprintOfSession(s)
                                           = FingerprintOfRequest(DeviceMapped)}) = 2

-----------------------------------------------------------------------------
(* Role selection against role changes: the second user of the business is a
   super_admin who may also act as admin.  The owner and this deputy log in
   and select roles; the deputy can give up the admin role, the owner can make
   the deputy a plain admin and remove the account. *)

DeputyUsers == [InitUsers EXCEPT !["staff"].role = ROLES.SUPER_ADMIN]

DeputyUserRoles == [InitUserRoles EXCEPT !["staff"] = {ROLES.SUPER_ADMIN, ROLES.ADMIN}]

InitRoles ==
    /\ now = 0
    /\ users = DeputyUsers
    /\ userRoles = DeputyUserRoles
    /\ otps = {}
    /\ attempts = <<>>
    /\ sessions = {}
    /\ tokens = {}
    /\ last = NoCall
    /\ settings = [u \in {"owner", "staff"} |-> NoRow]
    /\ authenticator = [u \in {"owner", "staff"} |-> <<>>]
    /\ questions = {}
    /\ backupCodes = {}
    /\ inflight = [p \in {1} |-> Idle]

NextRoles ==
    \/ \E u \in UserIds : login(<<u, "@psfss">>, <<"password of", u>>, Device, FALSE, FALSE)
    \/ \E selectedRole \in SUPER_ADMIN_SELECTABLE_ROLES, tempToken \in tokens :
          selectRole(selectedRole, tempToken, Device, FALSE, FALSE)
    \/ \E token \in tokens :
          request("authenticateSuperAdmin", "removeSelfFromAdmin", token, Device, "", FALSE)
    \/ \E token \in tokens :
          request("authenticateBusinessAdmin", "updateBusinessUserRole", token, Device,
                  [userId |-> "staff", role |-> ROLES.ADMIN], FALSE)
    \/ \E token \in tokens :
          request("authenticateBusinessAdmin", "removeBusinessUser", token, Device,
                  "staff", FALSE)
    \/ \E token \in tokens : forgetToken(token)

SpecRoles == InitRoles /\ [][NextRoles]_vars

(* The user exists, is not deleted, has the primary role super_admin and an
   active grant of the role. *)
GrantedNow(userId, role) ==
    /\ userId \in UserIds
    /\ ~users[userId].is_deleted
    /\ users[userId].role = ROLES.SUPER_ADMIN
    /\ role \in userRoles[userId]

(* A role-selection token that verifies, of a user who is still there as a
   super_admin, presented for a role the user has no active grant of. *)
StaleForRole(tempToken, role) ==
    /\ jwtVerify(tempToken) = "ok"
    /\ tempToken.temp
    /\ tempToken.id \in UserIds
    /\ ~users[tempToken.id].is_deleted
    /\ users[tempToken.id].role = ROLES.SUPER_ADMIN
    /\ role \notin userRoles[tempToken.id]

RoleNotGranted ==
    /\ last'.res.status = 403
    /\ last'.res.message = "You do not have access to this role"
    /\ issuedBy(last'.res) = {}
    /\ UNCHANGED <<tokens, sessions>>

(* C12: selectRole issues a session token only if, when it is called, the
   user of the role-selection token exists, is not deleted, has the primary
   role super_admin and an active grant of the selected role; a token issued
   before the role was removed is answered RoleNotGranted (403) and yields no
   token and no session. *)
C12_SelectRoleRechecks ==
    [][\A selectedRole \in SUPER_ADMIN_SELECTABLE_ROLES, tempToken \in tokens :
          (/\ last'.op = "selectRole"
           /\ last'.given = tempToken
           /\ selectRole(selectedRole, tempToken, Device, FALSE, FALSE))
          => /\ (issuedBy(last'.res) # {} \/ tokens' # tokens)
                => /\ tempToken.temp
                   /\ GrantedNow(tempToken.id, selectedRole)
                   /\ last'.res.body.token.role = selectedRole
             /\ StaleForRole(tempToken, selectedRole) => RoleNotGranted]_vars

(* The deputy has given up the admin role, and the role-selection token from
   before has been refused for it. *)
C12_Witness ==
    /\ last.op = "selectRole"
    /\ last.user = "staff"
    /\ last.given.temp
    /\ last.res.status = 403
    /\ last.res.message = "You do not have access to this role"
    /\ ROLES.ADMIN \notin userRoles["staff"]
    /\ ROLES.ADMIN \in DeputyUserRoles["staff"]


------------------------------------------------------------------------------
(* What a caller of login learns from a refusal. *)

(* The call was a login that the credentials alone decide: the email names no
   user, the password does not match, or the user is soft-deleted. *)
RefusedOnCredentials(call) ==
    /\ call.op = "login"
    /\ LET user == getByEmail(call.given.email)
       IN \/ user = NoUser
          \/ ~bcryptCompare(call.given.password, user.password)
          \/ user.is_deleted

(* C13: the failure result of login is the same generic result, status code
   and message alike, whether the email is unknown, the user is soft-deleted
   or the password is wrong: two login calls in a row that are both refused
   on the credentials get the same response. *)
C13_GenericLoginFailure ==
    [][(/\ last' # last
        /\ RefusedOnCredentials(last)
        /\ RefusedOnCredentials(last'))
       => /\ last'.res.status = last.res.status
          /\ last'.res.message = last.res.message]_vars


------------------------------------------------------------------------------
(* Device sessions of logins: both users log in, with and without the
   one-time code, and the insert of the session row may fail. *)

InitSessions ==
    /\ InitBase
    /\ settings \in [{"owner", "staff"} -> {NoRow, OnlyOneTimeCode}]
    /\ authenticator = [u \in {"owner", "staff"} |-> <<>>]
    /\ questions = {}
    /\ backupCodes = {}
    /\ inflight = [p \in {1} |-> Idle]

NextSessions ==
    \/ \E email \in Emails, password \in Passwords, insertFails \in BOOLEAN :
          login(email, password, Device, FALSE, insertFails)
    \/ \E selectedRole \in SUPER_ADMIN_SELECTABLE_ROLES, tempToken \in tokens,
          insertFails \in BOOLEAN :
          selectRole(selectedRole, tempToken, Device, FALSE, insertFails)
    \/ \E tempToken \in tokens : send2FACode(tempToken, SentCode, Device)
    \/ \E tempToken \in tokens :
          verify2FAAndLogin(1, tempToken, "one_time_code", typed("otp", SentCode), <<>>,
                            Device, FewAttempts)
    \/ verifyOneTimeCode(1)
    \/ verifyOneTimeCode_markUsed(1)
    \/ \E insertFails \in BOOLEAN : verify2FAAndLogin_finish(1, FALSE, insertFails)
    \/ \E token \in tokens : forgetToken(token)

SpecSessions == InitSessions /\ [][NextSessions]_vars

(* This step is a call of login, selectRole or the end of verify2FAAndLogin
   with this outcome of the insert. *)
LoginCall(insertFails) ==
    \/ /\ last'.op = "login"
       /\ \E email \in Emails, password \in Passwords :
             /\ last'.given = [email |-> email, password |-> password]
             /\ login(email, password, Device, FALSE, insertFails)
    \/ /\ last'.op = "selectRole"
       /\ \E selectedRole \in SUPER_ADMIN_SELECTABLE_ROLES, tempToken \in tokens :
             /\ last'.given = tempToken
             /\ selectRole(selectedRole, tempToken, Device, FALSE, insertFails)
    \/ /\ last'.op = "verify2FAAndLogin"
       /\ inflight[1].step = "verified"
       /\ verify2FAAndLogin_finish(1, FALSE, insertFails)

(* The step adds exactly one row to device_session: an unblocked one of the
   user the call was for, with the fingerprint of the request. *)
AddsOneSessionRow ==
    \E s \in sessions' \ sessions :
        /\ sessions' = sessions \cup {s}
        /\ s.user_id = last'.user
        /\ ~s.is_blocked
        /\ <<s.ip_address, s.browser, s.os>> = FingerprintOfRequest(Device)

ReturnsSessionToken == last'.res.body.token # NoToken

(* C14 as stated: every call of login, verify2FAAndLogin or selectRole that
   returns a session token has added one unblocked device_session row for the
   presenting fingerprint, and a call that ends in an error or in an
   intermediate token adds none. *)
C14_SessionRowExactly ==
    [][\A insertFails \in BOOLEAN :
          LoginCall(insertFails)
          => IF ReturnsSessionToken THEN AddsOneSessionRow
                                    ELSE sessions' = sessions]_vars

(* C14, amended: a call that returns a session token has added one unblocked
   device_session row for the presenting fingerprint unless the insert of the
   row failed, in which case the token is returned and no row is added; a
   call that ends in an error or in an intermediate token adds none. *)
C14_SessionRowUnlessInsertFails ==
    [][\A insertFails \in BOOLEAN :
          LoginCall(insertFails)
          => IF ReturnsSessionToken /\ ~insertFails THEN AddsOneSessionRow
                                                    ELSE sessions' = sessions]_vars

(* A login ended with a session token although the insert of its session row
   failed: the user holds a token and has no device session. *)
C14_Witness ==
    /\ last.op \in {"login", "selectRole", "verify2FAAndLogin"}
    /\ last.res.body.token # NoToken
    /\ last.insertFails
    /\ last.res.body.token \in tokens
    /\ ~\E s \in sessions : s.user_id = last.user


------------------------------------------------------------------------------
(* Password failures and the second factor: the owner has the one-time code
   enabled and holds backup codes, staff has been removed and the owner has
   blocked the session on the other address; logins fail for every reason
   login knows before and after the owner's second-factor attempts. *)

DeletedStaff == [InitUsers EXCEPT !["staff"].is_deleted = TRUE]

(* A session of the owner on the other address, blocked from elsewhere. *)
BlockedOwnerSession ==
    {[id |-> 1, user_id |-> "owner",
      ip_address |-> extractDeviceInfo(OtherIp).ipAddress,
      browser |-> extractDeviceInfo(OtherIp).browser,
      os |-> extractDeviceInfo(OtherIp).os,
      is_blocked |-> TRUE, last_active |-> 0]}

InitPasswords ==
    /\ now = 0
    /\ users = DeletedStaff
    /\ userRoles = InitUserRoles
    /\ otps = {}
    /\ attempts = <<>>
    /\ sessions = BlockedOwnerSession
    /\ tokens = {}
    /\ last = [NoCall EXCEPT !.wrongPasswords = 0]
    /\ settings = ownerOnly(OnlyOneTimeCode)
    /\ authenticator = [u \in {"owner", "staff"} |-> <<>>]
    /\ questions = {}
    /\ backupCodes = initialBackupCodes("owner", GeneratedCodes)
    /\ inflight = [p \in {1} |-> Idle]

BackupCodeTries == {typed("backup", GeneratedCodes[1]), typed("backup", "00000000")}

(* Logins of an unknown email, of the removed staff, of the owner with a
   wrong password, and of the owner from the two addresses. *)
LoginAttempts ==
    {[email |-> <<"nobody", "@psfss">>, password |-> <<"password of", "owner">>,
      req |-> Device],
     [email |-> <<"staff", "@psfss">>, password |-> <<"password of", "staff">>,
      req |-> Device],
     [email |-> <<"owner", "@psfss">>, password |-> <<"password of", "staff">>,
      req |-> Device],
     [email |-> <<"owner", "@psfss">>, password |-> <<"password of", "owner">>,
      req |-> Device],
     [email |-> <<"owner", "@psfss">>, password |-> <<"password of", "owner">>,
      req |-> OtherIp]}

NextPasswords ==
    \/ \E attempt \in LoginAttempts :
          login(attempt.email, attempt.password, attempt.req, FALSE, FALSE)
    \/ \E tempToken \in tokens, code \in BackupCodeTries :
          verify2FAAndLogin(1, tempToken, "backup_code", code, <<>>, Device,
                            LockoutThreshold)
    \/ verifyBackupCode(1)
    \/ verifyBackupCode_use(1)
    \/ verify2FAAndLogin_finish(1, FALSE, FALSE)

SpecPasswords == InitPasswords /\ [][NextPasswords]_vars

(* This step is a login call that ends in an error. *)
FailedLogin ==
    /\ last'.op = "login"
    /\ last'.res.error
    /\ \E attempt \in LoginAttempts :
          /\ last'.given = [email |-> attempt.email, password |-> attempt.password]
          /\ last'.device = extractDeviceInfo(attempt.req)
          /\ login(attempt.email, attempt.password, attempt.req, FALSE, FALSE)

(* This step is a login of the owner with the right password from a device
   that is not blocked. *)
OwnerLogsInCorrectly ==
    /\ last'.op = "login"
    /\ last'.user = "owner"
    /\ ~isDeviceBlocked("owner", Device, FALSE)
    /\ login(<<"owner", "@psfss">>, <<"password of", "owner">>, Device, FALSE, FALSE)

(* C15: a login that fails, for an unknown email, a wrong password, a deleted
   user or a blocked device, leaves the attempt ledger unchanged; wrong
   passwords never count towards the second-factor lockout: a verify-2fa call
   is answered TooManyAttempts only on the failed rows of the ledger, after
   any number of wrong-password logins the owner who logs in correctly
   receives a second-factor-pending token, and a verification that found the
   backup code right ends without an error. *)
C15_PasswordFailuresNotCounted ==
    [][/\ FailedLogin => UNCHANGED <<attempts, inflight, backupCodes, otps>>
       /\ OwnerLogsInCorrectly
          => /\ last'.res.body.require2FA
             /\ last'.res.body.tempToken.temp2FA
             /\ last'.res.body.tempToken \in tokens'
       /\ (VerifyAnswered /\ last'.res.status = 429) => LockedOut(last'.user)
       /\ (/\ inflight[1] # Idle
           /\ inflight[1].step = "verified"
           /\ inflight[1].isValid
           /\ inflight'[1] = Idle)
          => ~last'.res.error]_vars

(* After four logins refused for a wrong password the owner has logged in and
   completed the verification with one backup code: the ledger holds that one
   successful row, and the code is used. *)
C15_Witness ==
    /\ last.wrongPasswords = MaxWrongPasswords
    /\ last.op = "verify2FAAndLogin"
    /\ last.user = "owner"
    /\ ~last.res.error
    /\ last.proof = [method |-> "backup_code", code |-> typed("backup", GeneratedCodes[1])]
    /\ Len(attempts) = 1
    /\ attempts[1].success
    /\ \E c \in backupCodes : c.is_used /\ c.code_hash = bcryptHash(GeneratedCodes[1])


------------------------------------------------------------------------------
(* Setting up security questions: staff logs in and sends setup requests of
   every size, with questions and answers at the edges of the lengths the
   schema allows. *)

(* A text of n characters. *)
chars(n) == [i \in 1..n |-> "x"]

(* A setup request of n entries; the first has a question of ql and an answer
   of al characters, the others are within the lengths. *)
setupBody(n, ql, al) ==
    [i \in 1..n |->
        IF i = 1 THEN [question |-> chars(ql), answer |-> chars(al)]
        ELSE [question |-> chars(5 + i), answer |-> chars(2)]]

(* The lengths of the first question and its answer: the shortest and the
   longest the schema allows, and those one character off. *)
EdgeLengths ==
    {<<5, 2>>, <<500, 200>>, <<4, 2>>, <<501, 2>>, <<5, 1>>, <<5, 201>>}

SetupBodies == {setupBody(n, l[1], l[2]) : n \in 2..MaxQuestions, l \in EdgeLengths}

InitQuestions == InitLogin

NextQuestions ==
    \/ login(<<"staff", "@psfss">>, <<"password of", "staff">>, Device, FALSE, FALSE)
    \/ \E token \in tokens, body \in SetupBodies :
          request("authenticateBusinessAdmin", "setupSecurityQuestions", token, Device,
                  [body |-> body, codes |-> GeneratedCodes], FALSE)
    \/ \E token \in tokens : forgetToken(token)

SpecQuestions == InitQuestions /\ [][NextQuestions]_vars

(* The request carries 3 to 5 questions, each of 5 to 500 characters with an
   answer of 2 to 200 characters. *)
WellFormed(body) ==
    /\ Len(body) \in 3..5
    /\ \A i \in DOMAIN body :
          /\ Len(body[i].question) \in 5..500
          /\ Len(body[i].answer) \in 2..200

(* The questions stored for the user are those of the request, in its order. *)
StoredAs(userId, body) ==
    /\ Cardinality({q \in questions' : q.user_id = userId}) = Len(body)
    /\ \A i \in DOMAIN body :
          \E q \in questions' :
             q.user_id = userId /\ q.id = i /\ q.question = body[i].question

(* C16: setupSecurityQuestions accepts a request if and only if it carries 3
   to 5 questions, each question of 5 to 500 characters and each answer of 2
   to 200 characters; every other request is answered with a validation
   error and leaves the stored questions, the 2FA settings and the backup
   codes unchanged. *)
C16_SetupValidation ==
    [][\A token \in tokens, body \in SetupBodies :
          (/\ last'.op = "authenticateBusinessAdmin"
           /\ last'.endpoint = "setupSecurityQuestions"
           /\ last'.given = token
           /\ ReachesService(token, Device, FALSE)
           /\ request("authenticateBusinessAdmin", "setupSecurityQuestions", token,
                      Device, [body |-> body, codes |-> GeneratedCodes], FALSE))
          => IF WellFormed(body)
             THEN /\ ~last'.res.error
                  /\ StoredAs(token.id, body)
                  /\ settings'[token.id].security_question_enabled
             ELSE /\ last'.res.error
                  /\ last'.res.status = 400
                  /\ last'.res.message = "Validation error"
                  /\ UNCHANGED <<questions, settings, backupCodes>>]_vars

(* A user who has set up five questions has had a later setup request
   refused with a validation error, and still has the five. *)
C16_Witness ==
    /\ last.endpoint = "setupSecurityQuestions"
    /\ last.res.status = 400
    /\ last.res.message = "Validation error"
    /\ Cardinality({q \in questions : q.user_id = last.user}) = 5
    /\ settings[last.user] # NoRow
    /\ settings[last.user].security_question_enabled


------------------------------------------------------------------------------
(* Generations of backup codes: staff, who enabled the one-time code and got
   the first ten codes, logs in with a backup code and regenerates the codes
   with the session token in two requests that may overlap. *)

staffOnly(row) == [u \in {"owner", "staff"} |-> IF u = "staff" THEN row ELSE NoRow]

InitBackupCodes ==
    /\ InitBase
    /\ settings = staffOnly(OnlyOneTimeCode)
    /\ authenticator = [u \in {"owner", "staff"} |-> <<>>]
    /\ questions = {}
    /\ backupCodes = initialBackupCodes("staff", GeneratedCodes)
    /\ inflight = [p \in {1, 2} |-> Idle]

(* The requests in flight regenerate in different generations: no two draws
   of randomBytes yield the same codes. *)
FreshGeneration(generation) ==
    /\ \A p \in Slots :
          inflight[p].step = "insertBackupCodes" => inflight[p].generation # generation
    /\ \A c \in backupCodes, i \in 1..BackupCodeCount :
          c.code_hash # bcryptHash(generateBackupCodes(generation)[i])

NextBackupCodes ==
    \/ login(<<"staff", "@psfss">>, <<"password of", "staff">>, Device, FALSE, FALSE)
    \/ /\ inflight[2] = Idle
       /\ \E tempToken \in tokens, generation \in 1..3 :
             verify2FAAndLogin(1, tempToken, "backup_code",
                               typed("backup", generateBackupCodes(generation)[1]),
                               <<>>, Device, FewAttempts)
    \/ verifyBackupCode(1)
    \/ verifyBackupCode_use(1)
    \/ verify2FAAndLogin_finish(1, FALSE, FALSE)
    \/ \E p \in Slots, token \in tokens, generation \in 2..3 :
          /\ ~token.temp2FA
          /\ FreshGeneration(generation)
          /\ regenerateBackupCodes(p, token, Device, generation)
    \/ \E p \in Slots : saveBackupCodes_insert(p)
    \/ \E p \in Slots : regenerateBackupCodes_finish(p)

SpecBackupCodes == InitBackupCodes /\ [][NextBackupCodes]_vars

(* The unused backup codes of the user, before and after the step. *)
UnusedCodes(userId) == {c \in backupCodes : c.user_id = userId /\ ~c.is_used}

UnusedCodesAfter(userId) == {c \in backupCodes' : c.user_id = userId /\ ~c.is_used}

(* C17: every generation of backup codes mints exactly 10 codes and discards
   the unused codes of earlier generations, also when two generations for a
   user overlap in time: a user never has more than 10 unused codes, has
   exactly 10 when a generation completes, and those are the codes of that
   generation, no code of another generation being left to redeem. *)
C17_TenUnusedCodes ==
    [][/\ \A u \in UserIds : Cardinality(UnusedCodesAfter(u)) <= BackupCodeCount
       /\ \A p \in Slots :
             (/\ inflight[p].step = "insertBackupCodes"
              /\ inflight'[p] = Idle)
             => /\ Cardinality(UnusedCodesAfter(inflight[p].user.id)) = BackupCodeCount
                /\ \A c \in UnusedCodesAfter(inflight[p].user.id) :
                      \E i \in 1..BackupCodeCount :
                         c.code_hash =
                            bcryptHash(generateBackupCodes(inflight[p].generation)[i])]_vars


------------------------------------------------------------------------------
(* Replacing and disabling security questions: staff sets up questions,
   replaces them and disables them, the server may die in the middle of a
   request, and a login of staff answers a question meanwhile. *)

InitReplace ==
    /\ InitBase
    /\ settings = [u \in {"owner", "staff"} |-> NoRow]
    /\ authenticator = [u \in {"owner", "staff"} |-> <<>>]
    /\ questions = {}
    /\ backupCodes = {}
    /\ inflight = [p \in {1, 2} |-> Idle]

ReplaceBodies == {setupBody(3, 5, 2), setupBody(5, 5, 2), setupBody(MaxQuestions, 5, 2)}

NextReplace ==
    \/ login(<<"staff", "@psfss">>, <<"password of", "staff">>, Device, FALSE, FALSE)
    \/ \E token \in tokens, body \in ReplaceBodies :
          ~token.temp2FA /\ setupSecurityQuestions_delete(1, token, Device, body)
    \/ saveSecurityQuestions_insert(1)
    \/ setupSecurityQuestions_enable(1)
    \/ setupSecurityQuestions_finish(1)
    \/ \E token \in tokens : ~token.temp2FA /\ disableSecurityQuestions(1, token, Device)
    \/ disableSecurityQuestions_finish(1)
    \/ crash(1)
    \/ \E tempToken \in tokens :
          verify2FAAndLogin(2, tempToken, "security_question", NoCode,
                            <<answerTo(1, chars(2))>>, Device, FewAttempts)
    \/ verifySecurityQuestionsCode(2)
    \/ verify2FAAndLogin_finish(2, FALSE, FALSE)
    \/ \E token \in tokens : forgetToken(token)

SpecReplace == InitReplace /\ [][NextReplace]_vars

(* The number of security questions stored for the user. *)
StoredQuestions(userId) == Cardinality({q \in questions : q.user_id = userId})

(* C18: in every reachable state in which security_question_enabled of a
   user is true the user has between 3 and 5 stored security questions, also
   in the middle of a setup call that replaces the questions, of a disable
   call, and after a crash in the middle of either. *)
C18_EnabledMeansQuestions ==
    \A u \in UserIds :
        (settings[u] # NoRow /\ settings[u].security_question_enabled)
        => StoredQuestions(u) \in 3..5


------------------------------------------------------------------------------
(* The emailed code in two requests at once: the owner, whose only factor is
   the one-time code, has a code sent and submits it from two tabs. *)

InitOtp ==
    /\ InitBase
    /\ authenticator = [u \in {"owner", "staff"} |-> <<>>]
    /\ questions = {}
    /\ settings = ownerOnly(OnlyOneTimeCode)
    /\ backupCodes = {}
    /\ inflight = [p \in {1, 2} |-> Idle]

NextOtp ==
    \/ login(<<"owner", "@psfss">>, <<"password of", "owner">>, Device, FALSE, FALSE)
    \/ \E tempToken \in tokens : send2FACode(tempToken, SentCode, Device)
    \/ \E p \in Slots, tempToken \in tokens, code \in {SentCode, "000000"} :
          verify2FAAndLogin(p, tempToken, "one_time_code", typed("otp", code), <<>>,
                            Device, MaxAttempts)
    \/ \E p \in Slots : verifyOneTimeCode(p)
    \/ \E p \in Slots : verifyOneTimeCode_markUsed(p)
    \/ \E p \in Slots : verify2FAAndLogin_finish(p, FALSE, FALSE)
    \/ Tick

SpecOtp == InitOtp /\ [][NextOtp]_vars

(* C19: an emailed code is accepted at most once, also when two requests
   submit it at the same time: the ledger never holds more successful
   one_time_code attempts of a user than the user's email has otp rows, and
   two requests of a user that submitted the same code are never both
   verified. *)
C19_OtpOnce ==
    /\ \A u \in UserIds :
          Cardinality({i \in 1..Len(attempts) :
              /\ attempts[i].user_id = u
              /\ attempts[i].method = "one_time_code"
              /\ attempts[i].success})
          <= Cardinality({row \in otps : row.email = users[u].email})
    /\ \A p, q \in Slots :
          (/\ p # q
           /\ inflight[p].step = "verified"
           /\ inflight[q].step = "verified"
           /\ inflight[p].method = "one_time_code"
           /\ inflight[q].method = "one_time_code"
           /\ inflight[p].user.id = inflight[q].user.id
           /\ inflight[p].code = inflight[q].code)
          => ~(inflight[p].isValid /\ inflight[q].isValid)


------------------------------------------------------------------------------
(* Several sessions of one device: staff logs in from the same device more
   than once while time passes, blocks and unblocks sessions from another
   address, and sends requests through each middleware. *)

InitGate == InitLogin

NextGate ==
    \/ \E req \in {Device, OtherIp} :
          login(<<"staff", "@psfss">>, <<"password of", "staff">>, req, FALSE, FALSE)
    \/ \E token \in tokens, req \in {Device, OtherIp}, session \in sessions :
          request("authenticateBusinessAdmin", "blockDevice", token, req, session.id, FALSE)
    \/ \E token \in tokens, session \in sessions :
          request("authenticateBusinessAdmin", "unblockDevice", token, OtherIp, session.id,
                  FALSE)
    \/ \E mw \in Middlewares, token \in tokens, req \in {Device, OtherIp} :
          request(mw, "getDeviceSessions", token, req, NoBody, FALSE)
    \/ Tick
    \/ \E token \in tokens : forgetToken(token)

SpecGate == InitGate /\ [][NextGate]_vars

(* The call completed in this step went through a middleware with a session
   token, from the fingerprint of a blocked session of the token's user. *)
FromBlockedFingerprint ==
    /\ last' # last
    /\ last'.op \in Middlewares
    /\ last'.given \in tokens
    /\ ~last'.given.temp
    /\ ~last'.given.temp2FA
    /\ last'.user # ""
    /\ BlockedAt(last'.user, last'.device)

(* C20: a request authenticated with a session token from a fingerprint of
   which some session of the user is blocked is denied, whatever the
   middleware and the endpoint, also when the user has several sessions of
   that fingerprint of which only some are blocked. *)
C20_BlockGatesEveryRequest ==
    [][FromBlockedFingerprint => last'.res.error]_vars


------------------------------------------------------------------------------
(* The authenticator from setup to login: staff sets up a secret, confirms
   it or not, disables it, turns the one-time code on so that login asks for
   a second factor, and submits the codes of an authenticator app at login. *)

InitAuthenticator ==
    /\ InitBase
    /\ settings = [u \in {"owner", "staff"} |-> NoRow]
    /\ authenticator = [u \in {"owner", "staff"} |-> <<>>]
    /\ questions = {}
    /\ backupCodes = {}
    /\ inflight = [p \in {1, 2} |-> Idle]

AppCodes == {totp(secret, now) : secret \in Secrets}

NextAuthenticator ==
    \/ login(<<"staff", "@psfss">>, <<"password of", "staff">>, Device, FALSE, FALSE)
    \/ \E token \in tokens :
          /\ ~token.temp2FA
          /\ request("authenticateBusinessAdmin", "enableOneTimeCode", token, Device,
                     GeneratedCodes, FALSE)
    \/ \E token \in tokens, secret \in Secrets :
          ~token.temp2FA /\ setupAuthenticator_delete(2, token, Device, secret)
    \/ saveAuthenticatorSecret_insert(2)
    \/ \E token \in tokens, code \in AppCodes \cup {NoCode} :
          ~token.temp2FA /\ verifyAndEnableAuthenticator(token, Device, code)
    \/ \E token \in tokens : ~token.temp2FA /\ disableAuthenticator(token, Device)
    \/ \E tempToken \in tokens, code \in AppCodes :
          verify2FAAndLogin(1, tempToken, "authenticator", code, <<>>, Device, FewAttempts)
    \/ verifyAuthenticatorCode(1)
    \/ verify2FAAndLogin_finish(1, FALSE, FALSE)
    \/ \E token \in tokens : forgetToken(token)

SpecAuthenticator == InitAuthenticator /\ [][NextAuthenticator]_vars

(* The user has no authenticator row that is verified. *)
NoVerifiedSecret(userId) ==
    \A i \in 1..Len(authenticator[userId]) : ~authenticator[userId][i].is_verified

(* The code is what an authenticator app holding a secret of the user shows now. *)
CurrentCodeOf(userId, code) ==
    \E i \in 1..Len(authenticator[userId]) : code = totp(authenticator[userId][i].secret, now)

(* C21: the authenticator verifier of login answers false for every code, a
   currently valid one included, when the user has no secret row or only an
   unverified one, and writes no attempt row then; the enable flow accepts the
   current code of an unverified secret and marks it verified. *)
C21_UnverifiedSecretNotForLogin ==
    [][/\ \A p \in Slots :
             (/\ inflight[p].step = "authenticator"
              /\ inflight'[p].step = "verified"
              /\ NoVerifiedSecret(inflight[p].user.id))
             => ~inflight'[p].isValid /\ attempts' = attempts
       /\ (/\ last' # last
           /\ last'.endpoint = "verifyAndEnableAuthenticator"
           /\ last'.user # ""
           /\ last'.res.status # 401
           /\ last'.res.status # 403
           /\ CurrentCodeOf(last'.user, last'.proof.code))
          => /\ ~last'.res.error
             /\ \A i \in 1..Len(authenticator'[last'.user]) :
                   authenticator'[last'.user][i].is_verified]_vars

(* The current code of a secret that is set up but not confirmed has been
   refused at login. *)
C21_Witness ==
    /\ inflight[1].step = "verified"
    /\ ~inflight[1].isValid
    /\ authenticator[inflight[1].user.id] # <<>>
    /\ NoVerifiedSecret(inflight[1].user.id)
    /\ CurrentCodeOf(inflight[1].user.id, inflight[1].code)


------------------------------------------------------------------------------
(* Answers at setup and at login: staff sets up security questions, the text
   of the first question quoting its answer as typed, and answers the first
   question at login in several spellings. *)

InitNormalize == InitLogin

(* The answers typed at setup: a short one, and one a character longer than
   what bcrypt reads. *)
SetupAnswers == {<<"A", "b", " ">>, chars(BcryptBytes) \o <<"a">>}

(* The answers typed at login. *)
LoginAnswers ==
    {<<" ", "a", "B">>, <<"a", "c">>, <<"a", " ", "b">>,
     chars(BcryptBytes) \o <<"A", " ">>, chars(BcryptBytes) \o <<"b">>}

quotingBody(answer) ==
    [i \in 1..3 |->
        IF i = 1 THEN [question |-> chars(5) \o answer, answer |-> answer]
        ELSE [question |-> chars(5 + i), answer |-> chars(2)]]

NextNormalize ==
    \/ login(<<"staff", "@psfss">>, <<"password of", "staff">>, Device, FALSE, FALSE)
    \/ \E token \in tokens, answer \in SetupAnswers :
          /\ ~token.temp2FA
          /\ request("authenticateBusinessAdmin", "setupSecurityQuestions", token, Device,
                     [body |-> quotingBody(answer), codes |-> GeneratedCodes], FALSE)
    \/ \E tempToken \in tokens, answer \in LoginAnswers :
          verify2FAAndLogin(1, tempToken, "security_question", NoCode,
                            <<answerTo(1, answer)>>, Device, FewAttempts)
    \/ verifySecurityQuestionsCode(1)
    \/ verify2FAAndLogin_finish(1, FALSE, FALSE)
    \/ \E token \in tokens : forgetToken(token)

SpecNormalize == InitNormalize /\ [][NextNormalize]_vars

(* The text between the leading and the trailing spaces. *)
Core(s) ==
    LET ink == {i \in 1..Len(s) : s[i] # " "}
    IN IF ink = {} THEN <<>>
       ELSE SubSeq(s, CHOOSE i \in ink : \A j \in ink : i <= j,
                      CHOOSE i \in ink : \A j \in ink : j <= i)

(* The same letter, in either case. *)
SameLetter(c, d) ==
    \/ c = d
    \/ \E pair \in {<<"A", "a">>, <<"B", "b">>, <<"C", "c">>, <<"D", "d">>, <<"X", "x">>} :
          {c, d} = {pair[1], pair[2]}

(* The two answers differ in letter case and in leading and trailing spaces
   at most. *)
SameButCaseAndMargin(a, b) ==
    /\ Len(Core(a)) = Len(Core(b))
    /\ \A i \in 1..Len(Core(a)) : SameLetter(Core(a)[i], Core(b)[i])

(* The answer typed at setup for the first question of the user. *)
TypedAtSetup(userId) ==
    LET q == CHOOSE q \in questions : q.user_id = userId /\ q.id = 1
    IN SubSeq(q.question, 6, Len(q.question))

(* C22: an answer to a security question verifies if it differs from the
   answer typed at setup in letter case and in leading and trailing spaces
   only, and does not verify if it differs from it in anything else. *)
C22_AnswersNormalized ==
    [][\A p \in Slots :
          (/\ inflight[p].step = "security_question"
           /\ inflight'[p].step = "verified"
           /\ Len(inflight[p].answers) = 1
           /\ inflight[p].answers[1].id = 1
           /\ \E q \in questions : q.user_id = inflight[p].user.id /\ q.id = 1)
          => (inflight'[p].isValid <=>
                 SameButCaseAndMargin(TypedAtSetup(inflight[p].user.id),
                                      inflight[p].answers[1].answer))]_vars

(* C22 for the answers bcrypt reads in full. *)
C22_ShortAnswersNormalized ==
    [][\A p \in Slots :
          (/\ inflight[p].step = "security_question"
           /\ inflight'[p].step = "verified"
           /\ Len(inflight[p].answers) = 1
           /\ inflight[p].answers[1].id = 1
           /\ \E q \in questions : q.user_id = inflight[p].user.id /\ q.id = 1
           /\ Len(TypedAtSetup(inflight[p].user.id)) <= BcryptBytes)
          => (inflight'[p].isValid <=>
                 SameButCaseAndMargin(TypedAtSetup(inflight[p].user.id),
                                      inflight[p].answers[1].answer))]_vars


------------------------------------------------------------------------------
(* The status over the life of the security questions: staff sets questions
   up, asks for the status, disables them and sets them up again, each call
   run to its end before the next. *)

InitStatus == InitLogin

StatusBodies == {setupBody(2, 5, 2), setupBody(3, 5, 2), setupBody(5, 5, 2)}

Generations == {generateBackupCodes(1), generateBackupCodes(2)}

NextStatus ==
    \/ \E req \in {Device, OtherIp} :
          login(<<"staff", "@psfss">>, <<"password of", "staff">>, req, FALSE, FALSE)
    \/ \E token \in tokens, body \in StatusBodies, codes \in Generations :
          request("authenticateBusinessAdmin", "setupSecurityQuestions", token, Device,
                  [body |-> body, codes |-> codes], FALSE)
    \/ \E token \in tokens :
          request("authenticateBusinessAdmin", "disableSecurityQuestions", token, Device,
                  NoBody, FALSE)
    \/ \E token \in tokens, req \in {Device, OtherIp} :
          request("authenticateBusinessAdmin", "get2FAStatus", token, req, NoBody, FALSE)
    \/ \E token \in tokens : forgetToken(token)

SpecStatus == InitStatus /\ [][NextStatus]_vars

(* The call completed in this step asked for the status right after this call
   of the same user had succeeded. *)
StatusAfter(endpoint) ==
    /\ last'.endpoint = "get2FAStatus"
    /\ ~last'.res.error
    /\ last.endpoint = endpoint
    /\ ~last.res.error
    /\ last.user = last'.user

(* C23: a setup with N valid questions leaves N questions stored, those of
   that request only, and the status asked for after it reports two-factor
   authentication and the security questions enabled, that number of
   questions and backup codes remaining; the status asked for after a disable
   reports the security questions disabled and none stored; a setup after a
   disable enables them again and stores the backup codes it generated. *)
C23_StatusFollowsQuestions ==
    [][/\ \A token \in tokens, body \in StatusBodies, codes \in Generations :
             (/\ last'.op = "authenticateBusinessAdmin"
              /\ last'.endpoint = "setupSecurityQuestions"
              /\ last'.given = token
              /\ ~last'.res.error
              /\ request("authenticateBusinessAdmin", "setupSecurityQuestions", token,
                         Device, [body |-> body, codes |-> codes], FALSE))
             => /\ WellFormed(body)
                /\ StoredAs(token.id, body)
                /\ {c.code_hash : c \in {b \in backupCodes' :
                                            b.user_id = token.id /\ ~b.is_used}}
                      = {<<"bcrypt", codes[i]>> : i \in 1..BackupCodeCount}
       /\ StatusAfter("setupSecurityQuestions")
          => LET status == last'.res.body.status
             IN /\ status.is2FAEnabled
                /\ status.securityQuestion.enabled
                /\ status.securityQuestion.count \in 3..5
                /\ status.securityQuestion.count
                      = Cardinality({q \in questions : q.user_id = last'.user})
                /\ status.backupCodesRemaining > 0
       /\ StatusAfter("disableSecurityQuestions")
          => LET status == last'.res.body.status
             IN /\ ~status.securityQuestion.enabled
                /\ status.securityQuestion.count = 0]_vars

(* The status reports three questions and the codes of the second generation
   remaining: the questions were set up a second time, with three questions. *)
C23_Witness ==
    /\ last.endpoint = "get2FAStatus"
    /\ ~last.res.error
    /\ last.res.body.status.securityQuestion.enabled
    /\ last.res.body.status.securityQuestion.count = 3
    /\ last.res.body.status.backupCodesRemaining = BackupCodeCount
    /\ \E c \in backupCodes : c.code_hash = <<"bcrypt", generateBackupCodes(2)[1]>>


------------------------------------------------------------------------------
(* The verifiers when the store fails: the scenario of the factor verifiers,
   with queries that reject. *)

InitFaults == InitFactors

NextFaults ==
    \/ NextFactors
    \/ \E p \in Slots : verifierThrows(p)

SpecFaults == InitFaults /\ [][NextFaults]_vars

(* C24: a verifier that fails on an exception of the store still records a
   failed attempt of the user: the step in which its query rejects appends a
   row with success false. *)
C24_FailureRowOnException ==
    [][\A p \in Slots :
          verifierThrows(p)
          => /\ Len(attempts') = Len(attempts) + 1
             /\ attempts'[Len(attempts')].user_id = inflight[p].user.id
             /\ ~attempts'[Len(attempts')].success]_vars


------------------------------------------------------------------------------
(* Lockout under concurrency: two verify-2fa requests of the owner are in
   flight at once; each reads the count of recent failures in verify2FA and
   writes its row when its verifier has finished. *)

InitBurst ==
    /\ InitBase
    /\ authenticator = ownerSecrets(<<authenticatorRow(OwnerSecret, TRUE)>>)
    /\ questions = OwnerQuestions
    /\ settings = ownerOnly(AllFactors)
    /\ backupCodes = initialBackupCodes("owner", GeneratedCodes)
    /\ inflight = [p \in {1, 2} |-> Idle]

NextBurst ==
    \/ /\ tokens = {}
       /\ login(<<"owner", "@psfss">>, <<"password of", "owner">>, Device, FALSE, FALSE)
    \/ \E p \in Slots, tempToken \in tokens, proof \in Guesses :
          verify2FAAndLogin(p, tempToken, proof.method, proof.code, proof.answers,
                            Device, MaxAttempts)
    \/ \E p \in Slots :
          \/ verifyAuthenticatorCode(p)
          \/ verifyBackupCode(p)
          \/ verify2FAAndLogin_finish(p, FALSE, FALSE)

SpecBurst == InitBurst /\ [][NextBurst]_vars

(* C25: no more than 5 failed attempts of one user lie within any 30 minutes,
   also when the requests of the user run concurrently. *)
C25_AtMostFiveFailures ==
    \A userId \in UserIds : RecentFailures(userId) <= LockoutThreshold


------------------------------------------------------------------------------
(* The second step of a login: both users have a verified authenticator and
   two-factor authentication enabled, or neither has; they log in, present the
   code of the authenticator, select roles and block devices, and the
   owner gives up the admin role, while the lookup of the device sessions
   after the verification may fail; once a device is blocked the client also comes through the
   IPv4-mapped address. *)

InitSecondStep ==
    /\ InitBase
    /\ \/ /\ authenticator = [u \in {"owner", "staff"} |->
                                 <<authenticatorRow(OwnerSecret, TRUE)>>]
          /\ settings = [u \in {"owner", "staff"} |->
                            upsert2FASettings(TRUE, FALSE, FALSE, FALSE)]
          /\ backupCodes =
                initialBackupCodes("owner", GeneratedCodes)
                \cup {[c EXCEPT !.id = @ + BackupCodeCount, !.user_id = "staff"] :
                        c \in initialBackupCodes("owner", GeneratedCodes)}
       \/ /\ authenticator = [u \in {"owner", "staff"} |-> <<>>]
          /\ settings = [u \in {"owner", "staff"} |-> NoRow]
          /\ backupCodes = {}
    /\ questions = {}
    /\ inflight = [p \in {1} |-> Idle]

NextSecondStep ==
    \/ \E u \in UserIds :
          login(<<u, "@psfss">>, <<"password of", u>>, Device, FALSE, FALSE)
    \/ \E tempToken \in tokens :
          verify2FAAndLogin(1, tempToken, "authenticator", totp(OwnerSecret, now), <<>>,
                            Device, MaxSecondSteps)
    \/ /\ \E session \in sessions : session.is_blocked
       /\ \E tempToken \in tokens :
             verify2FAAndLogin(1, tempToken, "authenticator", totp(OwnerSecret, now),
                               <<>>, DeviceMapped, MaxSecondSteps)
    \/ verifyAuthenticatorCode(1)
    \/ \E lookupFails, insertFails \in BOOLEAN :
          verify2FAAndLogin_finish(1, lookupFails, insertFails)
    \/ \E tempToken \in tokens :
          selectRole(ROLES.SUPER_ADMIN, tempToken, Device, FALSE, FALSE)
    \/ \E token \in tokens, session \in sessions :
          request("authenticateBusinessAdmin", "blockDevice", token, OtherIp, session.id,
                  FALSE)
    \/ \E token \in tokens :
          request("authenticateSuperAdmin", "removeSelfFromAdmin", token, Device, "", FALSE)
    \/ \E token \in tokens : forgetToken(token)

SpecSecondStep == InitSecondStep /\ [][NextSecondStep]_vars

(* The call in slot p is answered in this step, after its factor has been
   verified. *)
AnsweredAfterFactor(p) ==
    /\ inflight[p] # Idle
    /\ inflight[p].step = "verified"
    /\ inflight[p].isValid
    /\ inflight'[p] = Idle
    /\ last'.op = "verify2FAAndLogin"

(* C26: verify2FAAndLogin checks the device again once the factor is verified:
   while a session of the user with the fingerprint of the caller is blocked
   (and the lookup of the sessions works), the call is answered DeviceBlocked
   and leaves no session token, no role-selection token, no device session
   and no last-login stamp. *)
C26_BlockedAfterFactor ==
    [][\A p \in Slots :
          (/\ AnsweredAfterFactor(p)
           /\ ~last'.lookupFails
           /\ BlockedAt(inflight[p].user.id, extractDeviceInfo(inflight[p].req)))
          => /\ last'.res = ResponseError(DeviceBlockedMessage, 403)
             /\ UNCHANGED <<tokens, sessions, users>>]_vars

(* The staff user, whose device was blocked after login had issued the
   second-factor-pending token, has presented the right code and was refused. *)
C26_Witness ==
    /\ last.op = "verify2FAAndLogin"
    /\ last.user = "staff"
    /\ ~last.lookupFails
    /\ last.res.status = 403
    /\ last.res.message = DeviceBlockedMessage
    /\ last.given \in tokens
    /\ BlockedAt("staff", last.device)
    /\ \E i \in 1..Len(attempts) :
          /\ attempts[i].user_id = "staff"
          /\ attempts[i].success
          /\ i = Len(attempts)


(* The decision of login after the password and the device check, for a user
   and a device: role selection is due when the primary role is super_admin
   and more than one role grant is active. *)
RoleSelectionDue(userId) ==
    /\ users[userId].role = ROLES.SUPER_ADMIN
    /\ Cardinality(userRoles[userId]) > 1

AnswersRoleSelection(userId) ==
    /\ ~last'.res.error
    /\ last'.res.body.requireRoleSelection
    /\ last'.res.body.tempToken =
          [id |-> userId, role |-> ROLES.SUPER_ADMIN, temp |-> TRUE, temp2FA |-> FALSE,
           exp |-> now + TempTokenMinutes, sig |-> "jwtSecret"]
    /\ last'.res.body.availableRoles = userRoles[userId]
    /\ last'.res.body.token = NoToken
    /\ UNCHANGED <<sessions, users>>

AnswersSession(userId, device, withSession) ==
    /\ ~last'.res.error
    /\ ~last'.res.body.requireRoleSelection
    /\ last'.res.body.tempToken = NoToken
    /\ last'.res.body.token =
          [id |-> userId, role |-> users[userId].role, temp |-> FALSE, temp2FA |-> FALSE,
           exp |-> now + SessionTokenMinutes, sig |-> "jwtSecret"]
    /\ users' = [users EXCEPT ![userId].last_login = now]
    /\ IF withSession
       THEN \E s \in sessions' \ sessions :
               /\ sessions' = sessions \cup {s}
               /\ s.user_id = userId
               /\ s.ip_address = device.ipAddress
               /\ s.browser = device.browser
               /\ s.os = device.os
               /\ ~s.is_blocked
       ELSE sessions' = sessions

(* A login of a user without two-factor authentication gets past the password
   and the device check in this step. *)
LoginDecides ==
    /\ last' # last
    /\ last'.op = "login"
    /\ ~last'.res.error
    /\ last'.user \in UserIds
    /\ settings[last'.user] = NoRow

(* The call in slot p gets past the factor and the device check in this step. *)
VerifyDecides(p) ==
    /\ AnsweredAfterFactor(p)
    /\ last'.lookupFails \/ ~BlockedAt(inflight[p].user.id, extractDeviceInfo(inflight[p].req))

(* C27 as stated: once the factor is verified, verify2FAAndLogin decides as
   login does for a user without two-factor authentication, on the state of
   that moment: a role-selection token with the active role names, and no
   session token, device session or last-login stamp, exactly when the primary
   role is super_admin and more than one role grant is active; otherwise a
   session token of the primary role, a device session and the last-login
   stamp. *)
C27_SameDecisionAsLogin ==
    [][/\ LoginDecides
          => IF RoleSelectionDue(last'.user) THEN AnswersRoleSelection(last'.user)
             ELSE AnswersSession(last'.user, last'.device, TRUE)
       /\ \A p \in Slots :
             VerifyDecides(p)
             => IF RoleSelectionDue(last'.user) THEN AnswersRoleSelection(last'.user)
                ELSE AnswersSession(last'.user, last'.device, TRUE)]_vars

(* C27 amended: the same decision, with the device session created unless its
   insert fails; the session token and the last-login stamp are given
   either way. *)
C27_SameDecisionUnlessInsertFails ==
    [][/\ LoginDecides
          => IF RoleSelectionDue(last'.user) THEN AnswersRoleSelection(last'.user)
             ELSE AnswersSession(last'.user, last'.device, ~last'.insertFails)
       /\ \A p \in Slots :
             VerifyDecides(p)
             => IF RoleSelectionDue(last'.user) THEN AnswersRoleSelection(last'.user)
                ELSE AnswersSession(last'.user, last'.device, ~last'.insertFails)]_vars

(* The owner logged in with two active role grants, gave up the admin role,
   and has then finished the second step: with one grant left the call
   ended in a session token of super_admin. *)
C27_Witness ==
    /\ last.op = "verify2FAAndLogin"
    /\ last.user = "owner"
    /\ ~last.res.error
    /\ last.res.body.token # NoToken
    /\ last.res.body.token.role = ROLES.SUPER_ADMIN
    /\ userRoles["owner"] = {ROLES.SUPER_ADMIN}
    /\ users["owner"].last_login = now
    /\ \E s \in sessions : s.user_id = "owner"


------------------------------------------------------------------------------
(* The device check when the lookup of the sessions fails: the scenario of
   the second step, where getUserSessions may throw in login,
   verify2FAAndLogin and selectRole. *)

InitFailOpen == InitSecondStep

NextFailOpen ==
    \/ \E u \in UserIds, lookupFails \in BOOLEAN :
          login(<<u, "@psfss">>, <<"password of", u>>, Device, lookupFails, FALSE)
    \/ \E tempToken \in tokens :
          verify2FAAndLogin(1, tempToken, "authenticator", totp(OwnerSecret, now), <<>>,
                            Device, MaxSecondSteps)
    \/ verifyAuthenticatorCode(1)
    \/ \E lookupFails \in BOOLEAN : verify2FAAndLogin_finish(1, lookupFails, FALSE)
    \/ \E tempToken \in tokens, lookupFails \in BOOLEAN :
          selectRole(ROLES.SUPER_ADMIN, tempToken, Device, lookupFails, FALSE)
    \/ \E token \in tokens, session \in sessions :
          request("authenticateBusinessAdmin", "blockDevice", token, OtherIp, session.id,
                  FALSE)
    \/ \E token \in tokens : forgetToken(token)

SpecFailOpen == InitFailOpen /\ [][NextFailOpen]_vars

(* login answers that the second factor is required. *)
AnswersRequire2FA(userId) ==
    /\ ~last'.res.error
    /\ last'.res.body.require2FA
    /\ last'.res.body.tempToken =
          [id |-> userId, role |-> users[userId].role, temp |-> FALSE, temp2FA |-> TRUE,
           exp |-> now + TempTokenMinutes, sig |-> "jwtSecret"]
    /\ last'.res.body.token = NoToken
    /\ UNCHANGED <<sessions, users>>

AnswersDecision(userId, device) ==
    IF RoleSelectionDue(userId) THEN AnswersRoleSelection(userId)
    ELSE AnswersSession(userId, device, TRUE)

(* A call of the operation, with the right credentials, is answered in this
   step after a device check whose lookup failed. *)
LookupFailedIn(op) ==
    /\ last' # last
    /\ last'.op = op
    /\ last'.lookupFails
    /\ last'.user \in UserIds

(* C28: the device check fails open: when the lookup of the device sessions
   throws in login, verify2FAAndLogin or selectRole, the call is not refused
   as blocked, also from a device that is blocked, no error of the lookup is
   returned, and the call ends as it does from a device that is not
   blocked. *)
C28_FailOpen ==
    [][/\ \A op \in {"login", "verify2FAAndLogin", "selectRole"} :
             LookupFailedIn(op)
             => /\ last'.res.status \notin {403, 500}
                /\ last'.res.message # DeviceBlockedMessage
       /\ LookupFailedIn("login")
          => IF settings[last'.user] # NoRow /\ settings[last'.user].is_2fa_enabled
             THEN AnswersRequire2FA(last'.user)
             ELSE AnswersDecision(last'.user, last'.device)
       /\ \A p \in Slots :
             (AnsweredAfterFactor(p) /\ last'.lookupFails)
             => AnswersDecision(last'.user, last'.device)
       /\ (LookupFailedIn("selectRole") /\ last'.given.temp)
          => AnswersSession(last'.user, last'.device, TRUE)]_vars

(* The staff user has passed the second step from a device that is blocked,
   because the lookup of the sessions failed. *)
C28_Witness ==
    /\ last.op = "verify2FAAndLogin"
    /\ last.lookupFails
    /\ last.user = "staff"
    /\ \E s \in sessions :
          /\ s.user_id = "staff"
          /\ s.is_blocked
          /\ s.ip_address = last.device.ipAddress
          /\ s.browser = last.device.browser
          /\ s.os = last.device.os
    /\ ~last.res.error
    /\ last.res.body.token \in tokens


------------------------------------------------------------------------------
(* The role of a request: the owner and the deputy log in and select roles,
   and change the stored role of the deputy, while tokens issued before stay
   in use. *)

InitTokenRole == InitRoles

NextTokenRole ==
    \/ \E u \in UserIds : login(<<u, "@psfss">>, <<"password of", u>>, Device, FALSE, FALSE)
    \/ \E selectedRole \in SUPER_ADMIN_SELECTABLE_ROLES, tempToken \in tokens :
          selectRole(selectedRole, tempToken, Device, FALSE, FALSE)
    \/ \E token \in tokens :
          request("authenticateSuperAdmin", "removeSelfFromAdmin", token, Device, "", FALSE)
    \/ \E token \in tokens, role \in {ROLES.ADMIN, ROLES.STANDARD_USER} :
          request("authenticateBusinessAdmin", "updateBusinessUserRole", token, Device,
                  [userId |-> "staff", role |-> role], FALSE)
    \/ \E token \in tokens :
          request("authenticateBusinessAdmin", "removeBusinessUser", token, Device,
                  "staff", FALSE)
    \/ \E token \in tokens : request("authenticate", "get2FAStatus", token, Device, "", FALSE)
    \/ \E token \in tokens : forgetToken(token)

SpecTokenRole == InitTokenRole /\ [][NextTokenRole]_vars

(* A request is answered in this step that came with a session token of a
   user who exists and is active. *)
WithSessionToken ==
    /\ last' # last
    /\ last'.op \in Middlewares
    /\ last'.given \in tokens
    /\ ~last'.given.temp
    /\ ~last'.given.temp2FA
    /\ last'.given.id \in UserIds
    /\ ~users[last'.given.id].is_deleted
    /\ users[last'.given.id].is_active

(* C29: a request with a session token is authorized with the role claim of
   the token, whatever the stored role of the user is: authenticateSuperAdmin
   refuses exactly the tokens whose role is not super_admin,
   authenticateBusinessAdmin exactly those whose role is no admin role,
   authenticate none, and the controller decides on the role of the token. *)
C29_TokenRoleAuthorizes ==
    [][WithSessionToken
       => /\ last'.op = "authenticateSuperAdmin"
             => (last'.res.message = "Only super admin can perform this action"
                 <=> last'.given.role # ROLES.SUPER_ADMIN)
          /\ last'.op = "authenticateBusinessAdmin"
             => (last'.res.message = "Only admins can manage business users"
                 <=> last'.given.role \notin ADMIN_ROLES)
          /\ last'.op = "authenticate" => ~last'.res.error
          /\ (last'.endpoint = "removeBusinessUser" /\ last'.given.role \in ADMIN_ROLES)
             => (~last'.res.error
                 <=> \/ /\ last'.given.role = ROLES.SUPER_ADMIN
                        /\ users["staff"].role = ROLES.ADMIN
                     \/ /\ last'.given.role = ROLES.ADMIN
                        /\ users["staff"].role # ROLES.ADMIN)]_vars

(* The owner, whose stored role is super_admin, selected the role admin and
   was refused by authenticateSuperAdmin with the token of that role. *)
C29_Witness ==
    /\ last.op = "authenticateSuperAdmin"
    /\ last.user = "owner"
    /\ users["owner"].role = ROLES.SUPER_ADMIN
    /\ last.given \in tokens
    /\ last.given.role = ROLES.ADMIN
    /\ ~last.given.temp
    /\ last.res.status = 403
    /\ last.res.message = "Only super admin can perform this action"


------------------------------------------------------------------------------
(* Authenticator setups that overlap: the staff user sends setup requests
   that are served at the same time, and verifies and disables the
   authenticator. *)

InitSetupRace == InitAuthenticator

NextSetupRace ==
    \/ login(<<"staff", "@psfss">>, <<"password of", "staff">>, Device, FALSE, FALSE)
    \/ \E p \in Slots, token \in tokens, secret \in Secrets :
          setupAuthenticator_delete(p, token, Device, secret)
    \/ \E p \in Slots : saveAuthenticatorSecret_insert(p)
    \/ \E token \in tokens, code \in AppCodes :
          verifyAndEnableAuthenticator(token, Device, code)
    \/ \E token \in tokens : disableAuthenticator(token, Device)

SpecSetupRace == InitSetupRace /\ [][NextSetupRace]_vars

(* C30: after any sequence of setupAuthenticator, verifyAndEnableAuthenticator
   and disableAuthenticator calls, also with setups served at the same time,
   a user has at most one user_authenticator row. *)
C30_AtMostOneSecret ==
    \A userId \in UserIds : Len(authenticator[userId]) <= 1


------------------------------------------------------------------------------
(* Where a one-time code comes from: the owner has the one-time code enabled,
   or only the security questions; codes are sent by send2FACode and by the
   password reset, which anyone can ask for, and are presented as the second
   factor. *)

InitOtpOrigin ==
    /\ InitBase
    /\ authenticator = [u \in {"owner", "staff"} |-> <<>>]
    /\ \/ /\ settings = ownerOnly(OnlyOneTimeCode)
          /\ questions = {}
       \/ /\ settings = ownerOnly(upsert2FASettings(FALSE, FALSE, FALSE, TRUE))
          /\ questions = OwnerQuestions
    /\ backupCodes = initialBackupCodes("owner", GeneratedCodes)
    /\ inflight = [p \in {1} |-> Idle]

(* What randomInt draws for the password reset in this scenario; send2FACode
   draws SentCode. *)
ResetCode == "222222"

NextOtpOrigin ==
    \/ login(<<"owner", "@psfss">>, <<"password of", "owner">>, Device, FALSE, FALSE)
    \/ \E tempToken \in tokens : send2FACode(tempToken, SentCode, Device)
    \/ \E email \in Emails : requestPasswordResetOTP(email, ResetCode, OtherIp)
    \/ \E tempToken \in tokens, code \in {SentCode, ResetCode} :
          verify2FAAndLogin(1, tempToken, "one_time_code", typed("otp", code), <<>>,
                            Device, FewAttempts)
    \/ verifyOneTimeCode(1)
    \/ verifyOneTimeCode_markUsed(1)
    \/ verify2FAAndLogin_finish(1, FALSE, FALSE)
    \/ \E token \in tokens : forgetToken(token)

SpecOtpOrigin == InitOtpOrigin /\ [][NextOtpOrigin]_vars

(* C31: a one-time code that the verifier accepts as a second factor was sent
   by send2FACode, and the user has the one-time code enabled: a code of the
   password reset, or a code for a user whose one-time code is disabled, is
   not accepted. *)
C31_OnlySentCodesAccepted ==
    [][\A p \in Slots :
          (/\ inflight[p] # Idle
           /\ inflight[p].step = "one_time_code"
           /\ inflight'[p] # Idle
           /\ inflight'[p].isValid)
          => /\ inflight[p].code.val = SentCode
             /\ settings[inflight[p].user.id] # NoRow
             /\ settings[inflight[p].user.id].one_time_code_enabled]_vars


------------------------------------------------------------------------------
(* Logging out the other devices: both users log in from several devices
   while time passes, and ask to revoke all other devices. *)

InitRevokeAll == InitLogin

RevokeAllRequests == {Device, DeviceMapped, OtherIp}

NextRevokeAll ==
    \/ \E u \in UserIds, req \in RevokeAllRequests :
          login(<<u, "@psfss">>, <<"password of", u>>, req, FALSE, FALSE)
    \/ \E tempToken \in tokens :
          selectRole(ROLES.SUPER_ADMIN, tempToken, Device, FALSE, FALSE)
    \/ \E token \in tokens, req \in RevokeAllRequests :
          request("authenticateBusinessAdmin", "revokeAllOtherDevices", token, req, "",
                  FALSE)
    \/ \E token \in tokens : forgetToken(token)
    \/ Tick

SpecRevokeAll == InitRevokeAll /\ [][NextRevokeAll]_vars

(* The sessions of the user whose fingerprint is not that of the device. *)
OtherDevices(userId, device) ==
    {s \in sessions :
        /\ s.user_id = userId
        /\ ~(/\ s.ip_address = device.ipAddress
             /\ s.browser = device.browser
             /\ s.os = device.os)}

(* revokeAllOtherDevices has run in this step. *)
RevokedAll ==
    /\ last' # last
    /\ last'.endpoint = "revokeAllOtherDevices"
    /\ ~last'.res.error

(* C32: revokeAllOtherDevices deletes every session of the caller whose
   fingerprint differs from that of the request and no other row: the
   sessions of the caller with the fingerprint of the request stay (the gate
   before the service stamps last_active on the current one), the sessions
   of other users stay as they are, and revokedCount is the number of rows
   deleted. *)
C32_RevokeAllFrame ==
    [][RevokedAll
       => LET others == OtherDevices(last'.user, last'.device)
          IN /\ {s.id : s \in sessions'} = {s.id : s \in sessions \ others}
             /\ \A s \in sessions \ others :
                   \E t \in sessions' :
                      /\ t.id = s.id
                      /\ [t EXCEPT !.last_active = s.last_active] = s
                      /\ s.user_id # last'.user => t = s
             /\ last'.res.message =
                   revokedMessage(Cardinality({s.id : s \in sessions}
                                              \ {s.id : s \in sessions'}))
             /\ last'.res.message = revokedMessage(Cardinality(others))]_vars

(* The staff user has logged out one other device and kept the session of the
   device the request came from. *)
C32_Witness ==
    /\ last.endpoint = "revokeAllOtherDevices"
    /\ last.user = "staff"
    /\ last.res.message = revokedMessage(1)
    /\ Cardinality(sessions) = 1
    /\ \E s \in sessions :
          /\ s.user_id = "staff"
          /\ s.ip_address = last.device.ipAddress
          /\ s.browser = last.device.browser
          /\ s.os = last.device.os


------------------------------------------------------------------------------
(* C33: a request that comes with a second-factor-pending token reads and
   changes nothing of the second-factor configuration and of the device
   sessions: it is refused, and the settings, the secrets, the questions, the
   backup codes and the sessions stay as they are. *)
C33_PendingTokenChangesNothing ==
    [][(/\ last' # last
        /\ last'.op \in Middlewares
        /\ last'.given \in tokens
        /\ last'.given.temp2FA)
       => /\ last'.res.error
          /\ UNCHANGED <<settings, authenticator, questions, backupCodes, sessions>>]_vars

(* C36: a session token issued before its user was soft-deleted or suspended
   is rejected afterwards by every authenticated endpoint, whichever of the
   three middlewares guards it. *)
C36_DeletedOrInactiveRejected ==
    [][(/\ last' # last
        /\ last'.op \in Middlewares
        /\ last'.given \in tokens
        /\ ~last'.given.temp
        /\ ~last'.given.temp2FA
        /\ \/ users[last'.given.id].is_deleted
           \/ ~users[last'.given.id].is_active)
       => /\ last'.res.error
          /\ UNCHANGED <<users, settings, backupCodes, sessions>>]_vars


------------------------------------------------------------------------------
(* Backup codes and blocked devices: the staff user logs in with backup codes
   and blocks the device from elsewhere while a login is under way. *)

InitBurned ==
    /\ InitBase
    /\ settings = staffOnly(OnlyOneTimeCode)
    /\ authenticator = [u \in {"owner", "staff"} |-> <<>>]
    /\ questions = {}
    /\ backupCodes = initialBackupCodes("staff", GeneratedCodes)
    /\ inflight = [p \in {1} |-> Idle]

NextBurned ==
    \/ login(<<"staff", "@psfss">>, <<"password of", "staff">>, Device, FALSE, FALSE)
    \/ \E tempToken \in tokens, i \in 1..2 :
          verify2FAAndLogin(1, tempToken, "backup_code",
                            typed("backup", GeneratedCodes[i]), <<>>, Device,
                            MaxSecondSteps)
    \/ verifyBackupCode(1)
    \/ verifyBackupCode_use(1)
    \/ verify2FAAndLogin_finish(1, FALSE, FALSE)
    \/ \E token \in tokens, session \in sessions :
          request("authenticateBusinessAdmin", "blockDevice", token, OtherIp, session.id,
                  FALSE)
    \/ \E token \in tokens : forgetToken(token)

SpecBurned == InitBurned /\ [][NextBurned]_vars

(* C34: a backup code is consumed only by a call that returns a session token
   or a role-selection token: a verify2FAAndLogin call whose backup-code
   verifier has marked the code as used is not answered with an error, the
   DeviceBlocked of the check after the verifier included. *)
C34_NoCodeSpentOnError ==
    [][\A p \in Slots :
          (/\ inflight[p] # Idle
           /\ inflight[p].step = "verified"
           /\ inflight[p].method = "backup_code"
           /\ inflight[p].isValid
           /\ inflight[p].storedCode # NoRow
           /\ \E c \in backupCodes :
                 c.id = inflight[p].storedCode.id /\ c.is_used
           /\ inflight'[p] = Idle)
          => /\ ~last'.res.error
             /\ issuedBy(last'.res) # {}]_vars


------------------------------------------------------------------------------
(* Lockout and successes: the owner, with a verified authenticator, submits
   wrong codes and the right code in any order while time passes. *)

InitNoReset ==
    /\ InitBase
    /\ authenticator = ownerSecrets(<<authenticatorRow(OwnerSecret, TRUE)>>)
    /\ questions = {}
    /\ settings = ownerOnly(upsert2FASettings(TRUE, FALSE, FALSE, FALSE))
    /\ backupCodes = initialBackupCodes("owner", GeneratedCodes)
    /\ inflight = [p \in {1} |-> Idle]

NextNoReset ==
    \/ /\ \A token \in tokens : jwtVerify(token) # "ok" \/ ~token.temp2FA
       /\ login(<<"owner", "@psfss">>, <<"password of", "owner">>, Device, FALSE, FALSE)
    \/ \E tempToken \in tokens,
          code \in {typed("totp", "000000"), totp(OwnerSecret, now)} :
          verify2FAAndLogin(1, tempToken, "authenticator", code, <<>>, Device, MaxAttempts + 1)
    \/ verifyAuthenticatorCode(1)
    \/ verify2FAAndLogin_finish(1, FALSE, FALSE)
    \/ Tick
    \/ \E token \in tokens : (jwtVerify(token) # "ok" \/ ~token.temp2FA) /\ forgetToken(token)

SpecNoReset == InitNoReset /\ [][NextNoReset]_vars

(* C35: a successful verification does not reset the lockout: the step that
   records a success leaves every row of the ledger in place and the number
   of recent failures as it was, and a call for a user with 5 failures
   within the 30 minutes is answered TooManyAttempts, and never taken up for
   verification, whether or not a success lies between them. *)
C35_SuccessDoesNotReset ==
    [][/\ (/\ Len(attempts') = Len(attempts) + 1
           /\ attempts'[Len(attempts')].success)
          => /\ SubSeq(attempts', 1, Len(attempts)) = attempts
             /\ \A userId \in UserIds :
                   Cardinality({i \in 1..Len(attempts') :
                       /\ attempts'[i].user_id = userId
                       /\ ~attempts'[i].success
                       /\ now - attempts'[i].created_at < LockoutWindowMinutes})
                   = RecentFailures(userId)
       /\ (VerifyAnswered /\ LockedOut(last'.user) /\ inflight' = inflight)
          => TooManyAttempts
       /\ \A p \in DOMAIN inflight :
             (inflight[p] = Idle /\ inflight'[p] # Idle)
             => ~LockedOut(inflight'[p].user.id)]_vars

(* Four failures, a success and one more failure of the owner lie within the
   30 minutes, and the next call has been answered TooManyAttempts. *)
C35_Witness ==
    /\ last.op = "verify2FAAndLogin"
    /\ last.res.status = 429
    /\ Len(attempts) = 6
    /\ \A i \in 1..4 : ~attempts[i].success
    /\ attempts[5].success
    /\ ~attempts[6].success
    /\ \A i \in 1..6 : now - attempts[i].created_at < LockoutWindowMinutes


------------------------------------------------------------------------------
(* Two factor toggles at once: staff enables the one-time code and sets up the
   security questions in two requests whose reads and writes of the settings
   row interleave. *)

(* POST /2fa/one-time-code/enable in its steps.  The first: the middleware,
   checkDeviceBlocked and get2FASettings. *)
enableOneTimeCode_get(p, token, req) ==
    /\ inflight[p] = Idle
    /\ LET refuse(auth, res) ==
               /\ last' = answered("enableOneTimeCode",
                                   [user |-> auth.user, req |-> req, given |-> token], res)
               /\ UNCHANGED <<sessions, inflight>>
           proceed(auth, rows) ==
               /\ sessions' = rows
               /\ inflight' = [inflight EXCEPT ![p] =
                     [step |-> "upsertOneTimeCode", user |-> auth.user,
                      row |-> get2FASettings(auth.user.id), req |-> req, given |-> token]]
               /\ UNCHANGED last
       IN admit(token, req, proceed, refuse)
    /\ UNCHANGED <<now, users, userRoles, settings, authenticator, questions,
                   backupCodes, otps, attempts, tokens>>

(* upsert2FASettings with the row read before and one_time_code_enabled: true. *)
enableOneTimeCode_upsert(p) ==
    /\ inflight[p].step = "upsertOneTimeCode"
    /\ LET row == inflight[p].row
       IN settings' = [settings EXCEPT ![inflight[p].user.id] =
              IF row = NoRow THEN upsert2FASettings(FALSE, FALSE, TRUE, FALSE)
              ELSE upsert2FASettings(row.authenticator_enabled, row.passkey_enabled,
                                     TRUE, row.security_question_enabled)]
    /\ inflight' = [inflight EXCEPT ![p].step = "oneTimeCodeBackupCodes"]
    /\ UNCHANGED <<now, users, userRoles, authenticator, questions, backupCodes,
                   otps, attempts, sessions, tokens, last>>

(* generateBackupCodes and the response. *)
enableOneTimeCode_finish(p) ==
    /\ inflight[p].step = "oneTimeCodeBackupCodes"
    /\ backupCodes' = saveBackupCodes(inflight[p].user.id, GeneratedCodes)
    /\ last' = answered("enableOneTimeCode", inflight[p],
                        ResponseOkMessage("One-time code via email enabled successfully"))
    /\ inflight' = [inflight EXCEPT ![p] = Idle]
    /\ UNCHANGED <<now, users, userRoles, settings, authenticator, questions,
                   otps, attempts, sessions, tokens>>

(* setupSecurityQuestions after the loop of saveSecurityQuestions:
   get2FASettings. *)
setupSecurityQuestions_get(p) ==
    /\ inflight[p].step = "insertSecurityQuestions"
    /\ inflight[p].inserted = Len(inflight[p].body)
    /\ inflight' = [inflight EXCEPT ![p] =
          [step |-> "upsertSecurityQuestions", user |-> inflight[p].user,
           row |-> get2FASettings(inflight[p].user.id),
           req |-> inflight[p].req, given |-> inflight[p].given]]
    /\ UNCHANGED <<now, users, userRoles, settings, authenticator, questions,
                   backupCodes, otps, attempts, sessions, tokens, last>>

(* upsert2FASettings with the row read before and security_question_enabled:
   true. *)
setupSecurityQuestions_upsert(p) ==
    /\ inflight[p].step = "upsertSecurityQuestions"
    /\ LET row == inflight[p].row
       IN settings' = [settings EXCEPT ![inflight[p].user.id] =
              IF row = NoRow THEN upsert2FASettings(FALSE, FALSE, FALSE, TRUE)
              ELSE upsert2FASettings(row.authenticator_enabled, row.passkey_enabled,
                                     row.one_time_code_enabled, TRUE)]
    /\ inflight' = [inflight EXCEPT ![p].step = "generateBackupCodes"]
    /\ UNCHANGED <<now, users, userRoles, authenticator, questions, backupCodes,
                   otps, attempts, sessions, tokens, last>>

InitToggles == InitReplace

NextToggles ==
    \/ login(<<"staff", "@psfss">>, <<"password of", "staff">>, Device, FALSE, FALSE)
    \/ \E token \in tokens : ~token.temp2FA /\ enableOneTimeCode_get(1, token, Device)
    \/ enableOneTimeCode_upsert(1)
    \/ enableOneTimeCode_finish(1)
    \/ \E token \in tokens :
          ~token.temp2FA /\ setupSecurityQuestions_delete(2, token, Device, setupBody(3, 5, 2))
    \/ saveSecurityQuestions_insert(2)
    \/ setupSecurityQuestions_get(2)
    \/ setupSecurityQuestions_upsert(2)
    \/ setupSecurityQuestions_finish(2)
    \/ \E token \in tokens : forgetToken(token)

SpecToggles == InitToggles /\ [][NextToggles]_vars

(* C37: two concurrent toggles on different factors both take effect: the
   call that enables one factor leaves the flag the other call has set as it
   is, so that once both have completed both flags are set. *)
C37_BothTogglesTakeEffect ==
    [][\A userId \in UserIds :
          settings[userId] # NoRow
          => /\ settings'[userId] # NoRow
             /\ settings[userId].one_time_code_enabled
                => settings'[userId].one_time_code_enabled
             /\ settings[userId].security_question_enabled
                => settings'[userId].security_question_enabled]_vars


------------------------------------------------------------------------------
(* One pending token, several verifications: each user, with a verified
   authenticator, logs in once and presents the second-factor-pending token
   again and again, with the right code or a wrong one, from the device of the
   login or another; no time passes. *)

InitReuse ==
    /\ InitBase
    /\ authenticator = [u \in {"owner", "staff"} |-> <<authenticatorRow(OwnerSecret, TRUE)>>]
    /\ settings = [u \in {"owner", "staff"} |-> upsert2FASettings(TRUE, FALSE, FALSE, FALSE)]
    /\ backupCodes = {}
    /\ questions = {}
    /\ inflight = [p \in {1} |-> Idle]

NextReuse ==
    \/ \E u \in UserIds :
          /\ \A token \in tokens : token.id # u
          /\ \A i \in 1..Len(attempts) : attempts[i].user_id # u
          /\ login(<<u, "@psfss">>, <<"password of", u>>, Device, FALSE, FALSE)
    \/ \E tempToken \in tokens, req \in {Device, OtherIp},
          code \in {typed("totp", "000000"), totp(OwnerSecret, now)} :
          verify2FAAndLogin(1, tempToken, "authenticator", code, <<>>, req, MaxSecondSteps)
    \/ verifyAuthenticatorCode(1)
    \/ verify2FAAndLogin_finish(1, FALSE, FALSE)
    \/ \E token \in tokens : ~token.temp2FA /\ forgetToken(token)

SpecReuse == InitReuse /\ [][NextReuse]_vars

(* The successful verifications recorded for the user; under SpecReuse each
   of them was made with the one pending token the user ever received. *)
Successes(log, userId) ==
    Cardinality({i \in 1..Len(log) : log[i].user_id = userId /\ log[i].success})

(* C38: a second-factor-pending token completes a login once: a verify call
   that returns a session token or a role-selection token is the first
   successful verification made with that token. *)
C38_PendingTokenSingleUse ==
    [][(/\ inflight[1] # Idle
        /\ inflight[1].step = "verified"
        /\ inflight'[1] = Idle
        /\ issuedBy(last'.res) # {})
       => Successes(attempts', last'.user) <= 1]_vars


------------------------------------------------------------------------------
(* C39: whenever the authenticator_enabled flag of a user is true and no
   setup of that user is under way, the user has an authenticator row with
   is_verified true; in particular after setupAuthenticator was called again
   while the authenticator was enabled. *)
C39_EnabledHasVerifiedSecret ==
    \A userId \in UserIds :
       (/\ settings[userId] # NoRow
        /\ settings[userId].authenticator_enabled
        /\ \A p \in DOMAIN inflight :
              inflight[p] = Idle \/ inflight[p].user.id # userId)
       => ~NoVerifiedSecret(userId)

====
